---- MODULE Spec2Model ----
(***************************************************************************)
(* A model of ben-garcia/argparser: the open-addressing hash table         *)
(* (src/src/hash_table.c), the growable array and string helpers it sits   *)
(* on, the argument registry and the command-line scan of                  *)
(* src/src/argparser.c.                                                    *)
(*                                                                         *)
(* C strings are sequences of one-character strings; the terminating NUL   *)
(* is the character read at index Len(s).  C pointers are records with a   *)
(* tag, so that NULL, the tombstone sentinel (the pointer value 1) and a    *)
(* real pointer can be told apart exactly as the code tells them apart.    *)
(***************************************************************************)
EXTENDS Integers, Sequences, FiniteSets, TLC

(***************************************************************************)
(* Bounds of the model.                                                    *)
(***************************************************************************)
\* number of distinct keys the hash-table client uses
NumKeys == 3
\* number of distinct values the hash-table client stores
NumValues == 2

(***************************************************************************)
(* include/utils.h: enum status_codes                                      *)
(***************************************************************************)
STATUS_SUCCESS == 0
STATUS_FAILURE == 1
STATUS_MEMORY_FAILURE == 2
STATUS_IS_EMPTY == 3
STATUS_OUT_OF_BOUNDS == 4
STATUS_IS_NULL == 5
\* the literal 6 returned by argparser_add_argument and GET_ARG_FROM_PARSER
STATUS_ALREADY_EXISTS == 6

(***************************************************************************)
(* Characters and C strings.                                               *)
(***************************************************************************)
NUL == "\\0"

\* the byte value of a character (ASCII)
Ord(c) ==
  CASE c = "a" -> 97
     [] c = "b" -> 98
     [] c = "c" -> 99
     [] c = "d" -> 100
     [] c = "e" -> 101
     [] c = "f" -> 102
     [] c = "g" -> 103
     [] c = "h" -> 104
     [] c = "i" -> 105
     [] c = "j" -> 106
     [] c = "k" -> 107
     [] c = "l" -> 108
     [] c = "m" -> 109
     [] c = "n" -> 110
     [] c = "o" -> 111
     [] c = "p" -> 112
     [] c = "q" -> 113
     [] c = "r" -> 114
     [] c = "s" -> 115
     [] c = "t" -> 116
     [] c = "u" -> 117
     [] c = "v" -> 118
     [] c = "w" -> 119
     [] c = "x" -> 120
     [] c = "y" -> 121
     [] c = "z" -> 122
     [] c = "0" -> 48
     [] c = "1" -> 49
     [] c = "2" -> 50
     [] c = "3" -> 51
     [] c = "4" -> 52
     [] c = "5" -> 53
     [] c = "6" -> 54
     [] c = "7" -> 55
     [] c = "8" -> 56
     [] c = "9" -> 57
     [] c = "-" -> 45
     [] c = ":" -> 58
     [] c = "," -> 44
     [] c = "." -> 46
     [] c = " " -> 32
     [] c = "/" -> 47
     [] c = "A" -> 65
     [] c = "E" -> 69
     [] c = NUL -> 0

\* s[i] of a NUL-terminated string, 0-based; the byte after the terminator
\* is outside the string
CharAt(s, i) == IF i < Len(s) THEN s[i + 1] ELSE NUL

\* strlen of the C string that starts at offset i of s
Suffix(s, i) == IF i >= Len(s) THEN << >> ELSE SubSeq(s, i + 1, Len(s))

\* strncmp(s + i, p, Len(p)) == 0
StartsWithAt(s, i, p) ==
  /\ i + Len(p) <= Len(s)
  /\ SubSeq(s, i + 1, i + Len(p)) = p

isalpha(c) ==
  c \in {"a","b","c","d","e","f","g","h","i","j","k","l","m","n","o","p","q",
         "r","s","t","u","v","w","x","y","z","A","E"}

isdigit(c) == c \in {"0","1","2","3","4","5","6","7","8","9"}

(***************************************************************************)
(* Pointers.                                                               *)
(***************************************************************************)
\* a char * that is NULL (distinct from every string, the empty one included)
NULLSTR == << "NULL" >>
\* a void * that is NULL
NULLPTR == [tag |-> "null", data |-> 0]
\* the sentinel pointer value 1 hash_table_delete leaves in a deleted slot
TOMBSTONE == [tag |-> "tomb", data |-> 1]
\* a pointer to storage holding d
Ptr(d) == [tag |-> "ptr", data |-> d]

(***************************************************************************)
(* The strings the clients of the model use.                               *)
(***************************************************************************)
\* the keys of main(): "i:65" .. and further keys of the same shape; i:65,
\* i:76 and i:87 share slot 3 of an 8-slot table
HtKeyList ==
  << << "i", ":", "6", "5" >>, << "i", ":", "7", "6" >>,
     << "i", ":", "6", "6" >>, << "i", ":", "8", "7" >>,
     << "i", ":", "6", "7" >>, << "i", ":", "6", "8" >>,
     << "i", ":", "8", "0" >>, << "i", ":", "6", "9" >>,
     << "i", ":", "7", "0" >>, << "i", ":", "7", "1" >> >>


\* argument names a registering caller passes
SHORT_A == << "-", "a" >>
SHORT_B == << "-", "b" >>
LONG_N == << "-", "-", "n" >>
POS_P == << "p" >>
POS_Q == << "q" >>

(***************************************************************************)
(* Bit operations on naturals.                                             *)
(***************************************************************************)
RECURSIVE BitXor(_, _)
BitXor(a, b) ==
  IF a = 0 THEN b
  ELSE IF b = 0 THEN a
  ELSE (((a % 2) + (b % 2)) % 2) + 2 * BitXor(a \div 2, b \div 2)

RECURSIVE BitAnd(_, _)
BitAnd(a, b) ==
  IF a = 0 \/ b = 0 THEN 0
  ELSE (IF (a % 2) = 1 /\ (b % 2) = 1 THEN 1 ELSE 0) + 2 * BitAnd(a \div 2, b \div 2)

(***************************************************************************)
(* src/src/hash_table.c                                                    *)
(***************************************************************************)
HASH_TABLE_INITIAL_SIZE == 8
\* HASH_TABLE_LOAD_FACTOR is 0.75 = LoadNum / LoadDen
LoadNum == 3
LoadDen == 4

\* hash() keeps a 32-bit state; find_entry uses hash & (capacity - 1) only.
\* The low 16 bits of the FNV-1a state evolve on their own (xor with a byte
\* touches the low 8 bits, a product modulo 2^16 depends on the factors
\* modulo 2^16), so the model keeps exactly those: 2166136261 mod 2^16 and
\* 16777619 mod 2^16.  Exact for every capacity up to 2^16.
HashWidth == 65536
FnvOffsetLow == 40389
FnvPrimeLow == 403

RECURSIVE hashFrom(_, _, _)
hashFrom(key, i, hash_value) ==
  IF i > Len(key) THEN hash_value
  ELSE hashFrom(key, i + 1,
         ((hash_value - (hash_value % 256)
             + BitXor(hash_value % 256, Ord(key[i]))) * FnvPrimeLow) % HashWidth)

\* hash() on the keys the clients use, computed once
HashedKeys ==
  {HtKeyList[n] : n \in 1 .. Len(HtKeyList)}
    \cup {SHORT_A, SHORT_B, LONG_N, POS_P, POS_Q}
HashOf == [key \in HashedKeys |-> hashFrom(key, 1, FnvOffsetLow)]

hash(key) ==
  IF key \in HashedKeys THEN HashOf[key] ELSE hashFrom(key, 1, FnvOffsetLow)

\* find_entry has no way to report "not found in a full table": it loops.
\* NoReturn stands for a call that never returns.
NoReturn == -1

EmptyEntry == [key |-> NULLSTR, value |-> NULLPTR]

\* the entries of a freshly allocated table of the given capacity
FreshEntries(capacity) == [i \in 0 .. capacity - 1 |-> EmptyEntry]

\* The while (1) loop of find_entry, from slot index on.  tombstone is the
\* first tombstone passed (NoReturn for none).  After capacity steps without
\* a return every slot has been seen and nothing changes: the loop is endless.
RECURSIVE probe(_, _, _, _, _, _)
probe(entries, capacity, key, index, tombstone, steps) ==
  IF steps = capacity THEN NoReturn
  ELSE LET entry == entries[index]
           next  == BitAnd(index + 1, capacity - 1)
       IN IF entry.key = NULLSTR
          THEN IF entry.value = NULLPTR
               THEN (IF tombstone # NoReturn THEN tombstone ELSE index)
               ELSE probe(entries, capacity, key, next,
                          IF tombstone = NoReturn THEN index ELSE tombstone,
                          steps + 1)
          ELSE IF entry.key = key
               THEN index
               ELSE probe(entries, capacity, key, next, tombstone, steps + 1)

\* the index of the entry find_entry returns, or NoReturn
find_entry(entries, capacity, key) ==
  probe(entries, capacity, key, BitAnd(hash(key), capacity - 1), NoReturn, 0)

\* The loop of resize over the old slots i .. old capacity - 1; acc holds the
\* new entries and the size counted so far.
RECURSIVE rehash(_, _, _, _)
rehash(ht, capacity, i, acc) ==
  IF i >= ht.capacity THEN acc
  ELSE LET entry == ht.entries[i] IN
       IF entry.key = NULLSTR
       THEN rehash(ht, capacity, i + 1, acc)
       ELSE LET dest == find_entry(acc.entries, capacity, entry.key) IN
            rehash(ht, capacity, i + 1,
                   [entries |-> [acc.entries EXCEPT ![dest] =
                                    [key |-> entry.key, value |-> entry.value]],
                    size |-> acc.size + 1])

\* a resize that copies the old slots to the same indices of the new array
\* instead of probing for each key again
resize_copying_slots(ht, capacity) ==
  [ht EXCEPT !.entries = [i \in 0 .. capacity - 1 |->
                            IF i < ht.capacity THEN ht.entries[i]
                            ELSE EmptyEntry],
             !.capacity = capacity]

resize(ht, capacity) ==
  LET acc == rehash(ht, capacity, 0,
                    [entries |-> FreshEntries(capacity), size |-> 0])
  IN [ht EXCEPT !.entries = acc.entries, !.size = acc.size,
                !.capacity = capacity]

\* hash_table_create (hashfn NULL: the FNV-1a default); freefn is TRUE when
\* the caller passes a deallocator and so keeps ownership of the values
hash_table_create(freefn) ==
  [entries |-> << >>, size |-> 0, capacity |-> HASH_TABLE_INITIAL_SIZE,
   freefn |-> freefn]

hash_table_get_size(ht) == ht.size

\* lines 158-172 shared by hash_table_insert and hash_table_insert_and_replace:
\* allocate the slots of an empty table, then grow at the load factor
\* a preparation that grows the slot array by half instead of doubling it
Prepared_growing_by_half(ht) ==
  LET a == IF ht.size = 0
           THEN [ht EXCEPT !.entries = FreshEntries(ht.capacity)]
           ELSE ht
  IN IF (a.size + 1) * LoadDen >= a.capacity * LoadNum
     THEN resize(a, a.capacity + (a.capacity \div 2))
     ELSE a

Prepared(ht) ==
  LET a == IF ht.size = 0
           THEN [ht EXCEPT !.entries = FreshEntries(ht.capacity)]
           ELSE ht
  IN IF (a.size + 1) * LoadDen >= a.capacity * LoadNum
     THEN resize(a, a.capacity * 2)
     ELSE a

\* the size after hash_table_insert has picked the slot entry for a new key
InsertedSize(ht, entry) ==
  IF entry.value # TOMBSTONE THEN ht.size + 1 ELSE ht.size

\* hash_table_insert: the table afterwards, the status returned, and whether
\* the call returns at all
hash_table_insert(ht, key, value) ==
  LET a == Prepared(ht)
      e == find_entry(a.entries, a.capacity, key)
  IN IF e = NoReturn
     THEN [ht |-> a, result |-> STATUS_SUCCESS, returns |-> FALSE]
     ELSE IF a.entries[e].key # NULLSTR
     THEN [ht |-> a, result |-> STATUS_FAILURE, returns |-> TRUE]
     ELSE [ht |-> [a EXCEPT !.size = InsertedSize(a, a.entries[e]),
                            !.entries[e] = [key |-> key, value |-> Ptr(value)]],
           result |-> STATUS_SUCCESS, returns |-> TRUE]

hash_table_insert_and_replace(ht, key, value) ==
  LET a == Prepared(ht)
      e == find_entry(a.entries, a.capacity, key)
  IN IF e = NoReturn
     THEN [ht |-> a, result |-> STATUS_SUCCESS, returns |-> FALSE]
     ELSE IF a.entries[e].key = NULLSTR
     THEN [ht |-> [a EXCEPT !.size = a.size + 1,
                            !.entries[e] = [key |-> key, value |-> Ptr(value)]],
           result |-> STATUS_SUCCESS, returns |-> TRUE]
     ELSE [ht |-> [a EXCEPT !.entries[e].value = Ptr(value)],
           result |-> STATUS_SUCCESS, returns |-> TRUE]

\* hash_table_search with a non-NULL out parameter that holds old before the
\* call: the status, the out parameter afterwards, whether the call returns
hash_table_search(ht, key, old) ==
  IF ht.size = 0
  THEN [result |-> STATUS_IS_EMPTY, value |-> old, returns |-> TRUE]
  ELSE IF Len(key) = 0
  THEN [result |-> STATUS_FAILURE, value |-> NULLPTR, returns |-> TRUE]
  ELSE LET e == find_entry(ht.entries, ht.capacity, key) IN
       IF e = NoReturn
       THEN [result |-> STATUS_SUCCESS, value |-> old, returns |-> FALSE]
       ELSE IF ht.entries[e].key = NULLSTR
       THEN [result |-> STATUS_FAILURE, value |-> NULLPTR, returns |-> TRUE]
       ELSE [result |-> STATUS_SUCCESS, value |-> ht.entries[e].value,
             returns |-> TRUE]

hash_table_delete(ht, key) ==
  IF ht.size = 0
  THEN [ht |-> ht, result |-> STATUS_IS_EMPTY, returns |-> TRUE]
  ELSE LET e == find_entry(ht.entries, ht.capacity, key) IN
       IF e = NoReturn
       THEN [ht |-> ht, result |-> STATUS_SUCCESS, returns |-> FALSE]
       ELSE IF ht.entries[e].key = NULLSTR
       THEN [ht |-> ht, result |-> STATUS_FAILURE, returns |-> TRUE]
       ELSE [ht |-> [ht EXCEPT !.size = ht.size - 1,
                               !.entries[e] = [key |-> NULLSTR,
                                               value |-> TOMBSTONE]],
             result |-> STATUS_SUCCESS, returns |-> TRUE]

\* the keys stored in occupied slots, and how often a key occupies a slot
LiveKeys(ht) ==
  {ht.entries[i].key : i \in {j \in DOMAIN ht.entries :
                                 ht.entries[j].key # NULLSTR}}

(***************************************************************************)
(* A client of the hash table, as the second half of main() is: a table of *)
(* by-value entries (freefn NULL) driven by insert, insert_and_replace,    *)
(* delete and search in any order.                                         *)
(***************************************************************************)
VARIABLES
  ht,        \* the table
  htStored,  \* per key: the value the calls so far have reported stored, 0 for none
  htLast,    \* the last call: its name, key, status and what it saw
  htReturns  \* FALSE once a call has entered a loop it never leaves

htVars == << ht, htStored, htLast, htReturns >>

HtKeys == {HtKeyList[n] : n \in 1 .. NumKeys}
\* every key a client of the model may pass
HtAllKeys == {HtKeyList[n] : n \in 1 .. Len(HtKeyList)}
HtValues == 1 .. NumValues

HtInit ==
  /\ ht = hash_table_create(FALSE)
  /\ htStored = [k \in HtAllKeys |-> 0]
  /\ htLast = [op |-> "create", key |-> NULLSTR, result |-> STATUS_SUCCESS,
               value |-> NULLPTR, sizeBefore |-> 0, storedBefore |-> 0]
  /\ htReturns = TRUE

\* what a call leaves in htLast
Called(op, key, r, value) ==
  [op |-> op, key |-> key, result |-> r.result, value |-> value,
   sizeBefore |-> ht.size, storedBefore |-> htStored[key]]

HtInsert(k, v) ==
  /\ htReturns
  /\ LET r == hash_table_insert(ht, k, v) IN
     /\ ht' = r.ht
     /\ htReturns' = r.returns
     /\ htLast' = Called("insert", k, r, Ptr(v))
     /\ htStored' = IF r.returns /\ r.result = STATUS_SUCCESS
                    THEN [htStored EXCEPT ![k] = v] ELSE htStored

HtInsertAndReplace(k, v) ==
  /\ htReturns
  /\ LET r == hash_table_insert_and_replace(ht, k, v) IN
     /\ ht' = r.ht
     /\ htReturns' = r.returns
     /\ htLast' = Called("insert_and_replace", k, r, Ptr(v))
     /\ htStored' = IF r.returns /\ r.result = STATUS_SUCCESS
                    THEN [htStored EXCEPT ![k] = v] ELSE htStored

HtDelete(k) ==
  /\ htReturns
  /\ LET r == hash_table_delete(ht, k) IN
     /\ ht' = r.ht
     /\ htReturns' = r.returns
     /\ htLast' = Called("delete", k, r, NULLPTR)
     /\ htStored' = IF r.returns /\ r.result = STATUS_SUCCESS
                    THEN [htStored EXCEPT ![k] = 0] ELSE htStored

HtSearch(k) ==
  /\ htReturns
  /\ LET r == hash_table_search(ht, k, NULLPTR) IN
     /\ htReturns' = r.returns
     /\ htLast' = Called("search", k, r, r.value)
     /\ UNCHANGED << ht, htStored >>

\* search(k) as a caller sees it in the current state
Found(k) ==
  LET r == hash_table_search(ht, k, NULLPTR) IN
  r.returns /\ r.result = STATUS_SUCCESS

FoundValue(k) == hash_table_search(ht, k, NULLPTR).value

(***************************************************************************)
(* src/src/string_slice.c, on the characters a slice views.  A slice whose *)
(* string pointer is NULL is NULLSTR.                                      *)
(***************************************************************************)
\* the index of the first delimiter in s at or after position n, 0 for none
RECURSIVE FirstAt(_, _, _)
FirstAt(s, delimiter, n) ==
  IF n > Len(s) THEN 0
  ELSE IF s[n] = delimiter THEN n
  ELSE FirstAt(s, delimiter, n + 1)

\* string_slice_split: the status, the output slice and what is left of ss
string_slice_split(ss, delimiter) ==
  IF ss = NULLSTR
  THEN [result |-> STATUS_IS_NULL, output |-> NULLSTR, ss |-> ss]
  ELSE IF Len(ss) = 0
  THEN [result |-> STATUS_IS_EMPTY, output |-> NULLSTR, ss |-> ss]
  ELSE LET n == FirstAt(ss, delimiter, 1) IN
       IF n # 0
       THEN [result |-> STATUS_SUCCESS, output |-> SubSeq(ss, 1, n - 1),
             ss |-> SubSeq(ss, n + 1, Len(ss))]
       ELSE [result |-> STATUS_SUCCESS, output |-> ss, ss |-> NULLSTR]

\* string_slice_trim, for a slice that holds a character other than a space
\* (the two loops run off the slice otherwise)
RECURSIVE TrimLeft(_)
TrimLeft(s) == IF Len(s) > 0 /\ s[1] = " " THEN TrimLeft(Tail(s)) ELSE s

RECURSIVE TrimRight(_)
TrimRight(s) ==
  IF Len(s) > 0 /\ s[Len(s)] = " "
  THEN TrimRight(SubSeq(s, 1, Len(s) - 1)) ELSE s

string_slice_trim(ss) ==
  IF ss = NULLSTR \/ Len(ss) = 0 THEN ss ELSE TrimRight(TrimLeft(ss))

\* string_slice_to_string: an empty slice yields a NULL pointer, not ""
string_slice_to_string(ss) ==
  IF ss = NULLSTR \/ Len(ss) = 0 THEN NULLSTR ELSE ss

\* the outputs of the loop  while (string_slice_split(ss, output, d) == 0)
RECURSIVE SplitAll(_, _)
SplitAll(ss, delimiter) ==
  LET r == string_slice_split(ss, delimiter) IN
  IF r.result # STATUS_SUCCESS THEN << >>
  ELSE << r.output >> \o SplitAll(r.ss, delimiter)

(***************************************************************************)
(* src/src/argparser.c: the registry.                                      *)
(***************************************************************************)
\* argparser_arg_action, in the order of the enumeration
AP_ARG_STORE == 0
AP_ARG_STORE_CONST == 1
AP_ARG_STORE_TRUE == 2
AP_ARG_STORE_FALSE == 3
AP_ARG_STORE_APPEND == 4
AP_ARG_STORE_APPEND_CONST == 5
AP_ARG_STORE_EXTEND == 6
AP_ARG_STORE_COUNT == 7
AP_ARG_STORE_VERSION == 8
\* argparser_arg_type
AP_ARG_FLOAT == 0
AP_ARG_INT == 1
AP_ARG_STRING == 2
AP_ARG_BOOL == 3

\* the placeholders the registry writes for a missing flag or name
NO_FLAG == << "-", "0" >>
NO_NAME == << "-", "-", "0" >>

\* arg_create
arg_create(short_name, long_name) ==
  [action |-> AP_ARG_STORE, choices |-> NULLSTR, const_value |-> NULLSTR,
   default_value |-> NULLSTR, deprecated |-> FALSE, dest |-> NULLSTR,
   help |-> NULLSTR, long_name |-> long_name, metavar |-> NULLSTR,
   nargs |-> NULLSTR, required |-> FALSE, short_name |-> short_name,
   type |-> AP_ARG_STRING, value |-> NULLPTR]

\* determine_argument
determine_argument(short_name, long_name) ==
  IF short_name = NULLSTR /\ long_name = NULLSTR THEN -1
  ELSE IF short_name = NULLSTR /\ ~StartsWithAt(long_name, 0, << "-", "-" >>)
                               /\ CharAt(long_name, 0) # "-" THEN 1
  ELSE IF short_name = NULLSTR /\ StartsWithAt(long_name, 0, << "-", "-" >>)
       THEN 3
  ELSE IF short_name = NULLSTR /\ CharAt(long_name, 0) = "-" THEN -4
  ELSE LET short_length == Len(short_name) IN
       IF short_length # 2 \/ CharAt(short_name, 0) # "-"
                           \/ ~isalpha(CharAt(short_name, 1)) THEN -2
       ELSE IF short_length = 2 /\ long_name = NULLSTR THEN 2
       ELSE IF short_length = 2 /\ StartsWithAt(long_name, 0, << "-", "-" >>)
            THEN 3
       ELSE IF CharAt(short_name, 0) = "-" /\ isalpha(CharAt(short_name, 1))
                 /\ CharAt(long_name, 0) # "-"
                 /\ ~StartsWithAt(long_name, 0, << "-", "-" >>) THEN -5
       ELSE -6

\* argparser_create
argparser_create ==
  [arguments |-> hash_table_create(TRUE),
   positional_args |-> << >>, optional_args |-> << >>,
   req_opt_args |-> NULLSTR, unrecognized_args |-> NULLSTR,
   errors |-> [created |-> FALSE, items |-> << >>],
   pos_args_size |-> 0, req_opt_args_size |-> 0]

\* KeyOfKind filing an argument that has a short flag under that flag
KeyOfKind_short_first(arg_kind, short_name, long_name) ==
  IF short_name # NULLSTR THEN short_name ELSE long_name

\* the key argparser_add_argument files an argument of the given kind under
KeyOfKind(arg_kind, short_name, long_name) ==
  IF arg_kind = 2 THEN short_name ELSE long_name

\* what argparser_add_argument appends to positional_args or optional_args
ListedAs(arg_kind, short_name, long_name) ==
  IF arg_kind = 1 THEN long_name \o << " " >>
  ELSE IF arg_kind = 2
  THEN short_name \o << "," >>
         \o (IF long_name # NULLSTR THEN long_name ELSE NO_NAME) \o << " " >>
  ELSE (IF short_name # NULLSTR THEN short_name ELSE NO_FLAG) \o << "," >>
         \o long_name \o << " " >>

\* argparser_add_argument appending the listing before it looks the key up
argparser_add_argument_listing_first(p, heap, short_name, long_name) ==
  LET arg_kind == determine_argument(short_name, long_name) IN
  IF arg_kind \notin {1, 2, 3}
  THEN [parser |-> p, heap |-> heap, result |-> STATUS_FAILURE]
  ELSE LET key == KeyOfKind(arg_kind, short_name, long_name)
           found == hash_table_search(p.arguments, key, NULLPTR)
           listed == ListedAs(arg_kind, short_name, long_name)
           q == [p EXCEPT
                   !.positional_args =
                      IF arg_kind = 1 THEN @ \o listed ELSE @,
                   !.optional_args =
                      IF arg_kind = 1 THEN @ ELSE @ \o listed]
       IN IF found.result = STATUS_SUCCESS
          THEN [parser |-> q, heap |-> heap, result |-> STATUS_ALREADY_EXISTS]
          ELSE [parser |->
                  [q EXCEPT
                     !.arguments =
                        hash_table_insert(p.arguments, key, Len(heap) + 1).ht,
                     !.pos_args_size = IF arg_kind = 1 THEN @ + 1 ELSE @],
                heap |-> Append(heap,
                                arg_create(IF arg_kind = 1 THEN NULLSTR
                                           ELSE short_name, long_name)),
                result |-> STATUS_SUCCESS]

\* argparser_add_argument on the parser p with the argument records heap:
\* the parser and the heap afterwards and the status returned.  An argument
\* record is addressed by its index in heap.
argparser_add_argument(p, heap, short_name, long_name) ==
  LET arg_kind == determine_argument(short_name, long_name) IN
  IF arg_kind \notin {1, 2, 3}
  THEN [parser |-> p, heap |-> heap, result |-> STATUS_FAILURE]
  ELSE LET key == KeyOfKind(arg_kind, short_name, long_name)
           found == hash_table_search(p.arguments, key, NULLPTR)
       IN IF found.result = STATUS_SUCCESS
          THEN [parser |-> p, heap |-> heap, result |-> STATUS_ALREADY_EXISTS]
          ELSE LET listed == ListedAs(arg_kind, short_name, long_name)
                   arg == arg_create(IF arg_kind = 1 THEN NULLSTR
                                     ELSE short_name, long_name)
                   ins == hash_table_insert(p.arguments, key, Len(heap) + 1)
               IN [parser |->
                     [p EXCEPT
                        !.arguments = ins.ht,
                        !.positional_args =
                           IF arg_kind = 1 THEN @ \o listed ELSE @,
                        !.optional_args =
                           IF arg_kind = 1 THEN @ ELSE @ \o listed,
                        !.pos_args_size =
                           IF arg_kind = 1 THEN @ + 1 ELSE @],
                   heap |-> Append(heap, arg),
                   result |-> STATUS_SUCCESS]

\* GET_ARG_FROM_PARSER: the status the macro leaves and the argument found
\* (an index into the heap, 0 when the macro bails out)
GET_ARG_FROM_PARSER(p, name_or_flag) ==
  IF Len(name_or_flag) = 0
  THEN [result |-> STATUS_ALREADY_EXISTS, arg |-> 0]
  ELSE LET r == hash_table_search(p.arguments, name_or_flag, NULLPTR) IN
       IF r.result = STATUS_FAILURE
       THEN [result |-> STATUS_FAILURE, arg |-> 0]
       ELSE IF r.result = STATUS_IS_EMPTY
       THEN [result |-> STATUS_IS_EMPTY, arg |-> 0]
       ELSE [result |-> STATUS_SUCCESS, arg |-> r.value.data]

\* argparser_add_action_to_arg building the record anew around the action
argparser_add_action_to_arg_recreating(p, heap, name_or_flag, action) ==
  LET g == GET_ARG_FROM_PARSER(p, name_or_flag) IN
  IF g.result # STATUS_SUCCESS
  THEN [parser |-> p, heap |-> heap, result |-> g.result]
  ELSE [parser |-> p,
        heap |-> [heap EXCEPT
                    ![g.arg] = [arg_create(@.short_name, @.long_name)
                                  EXCEPT !.action = action]],
        result |-> STATUS_SUCCESS]

\* argparser_add_action_to_arg
argparser_add_action_to_arg(p, heap, name_or_flag, action) ==
  LET g == GET_ARG_FROM_PARSER(p, name_or_flag) IN
  IF g.result # STATUS_SUCCESS
  THEN [parser |-> p, heap |-> heap, result |-> g.result]
  ELSE [parser |-> p, heap |-> [heap EXCEPT ![g.arg].action = action],
        result |-> STATUS_SUCCESS]

\* argparser_add_type_to_arg: AP_ARG_BOOL falls to the default of the switch
argparser_add_type_to_arg(p, heap, name_or_flag, type) ==
  LET g == GET_ARG_FROM_PARSER(p, name_or_flag) IN
  IF g.result # STATUS_SUCCESS
  THEN [parser |-> p, heap |-> heap, result |-> g.result]
  ELSE IF type \notin {AP_ARG_FLOAT, AP_ARG_INT, AP_ARG_STRING}
  THEN [parser |-> p, heap |-> heap, result |-> STATUS_FAILURE]
  ELSE [parser |-> p, heap |-> [heap EXCEPT ![g.arg].type = type],
        result |-> STATUS_SUCCESS]

\* the "flag,name" entry argparser_add_required_to_arg writes to the ledger
LedgerEntry(arg) ==
  (IF arg.short_name = NULLSTR THEN NO_FLAG ELSE arg.short_name)
    \o << "," >>
    \o (IF arg.long_name = NULLSTR THEN NO_NAME ELSE arg.long_name)

\* argparser_add_required_to_arg
argparser_add_required_to_arg(p, heap, name_or_flag, required) ==
  LET g == GET_ARG_FROM_PARSER(p, name_or_flag) IN
  IF g.result # STATUS_SUCCESS
  THEN [parser |-> p, heap |-> heap, result |-> g.result]
  ELSE [parser |->
          [p EXCEPT
             !.req_opt_args =
                (IF @ = NULLSTR THEN << >> ELSE @)
                  \o LedgerEntry(heap[g.arg]) \o << " " >>,
             !.req_opt_args_size = @ + 1],
        heap |-> [heap EXCEPT ![g.arg].required = required],
        result |-> STATUS_SUCCESS]

\* the setters whose body is the lookup and one assignment of the pointer
\* passed: the field each of them writes
PointerSetters ==
  [add_help |-> "help", add_dest |-> "dest", add_nargs |-> "nargs",
   add_metavar |-> "metavar", add_default_value |-> "default_value",
   add_const_value |-> "const_value", add_choices |-> "choices"]

\* argparser_add_help_to_arg, argparser_add_dest_to_arg and the other
\* setters of PointerSetters: setter is the name of the one called
argparser_add_pointer_to_arg(p, heap, name_or_flag, setter, value) ==
  LET g == GET_ARG_FROM_PARSER(p, name_or_flag) IN
  IF g.result # STATUS_SUCCESS
  THEN [parser |-> p, heap |-> heap, result |-> g.result]
  ELSE [parser |-> p,
        heap |-> [heap EXCEPT ![g.arg][PointerSetters[setter]] = value],
        result |-> STATUS_SUCCESS]

\* argparser_add_deprecated_to_arg: a bool is 0 or 1, so the first test
\* never fires
argparser_add_deprecated_to_arg(p, heap, name_or_flag, deprecated) ==
  LET g == GET_ARG_FROM_PARSER(p, name_or_flag) IN
  IF g.result # STATUS_SUCCESS
  THEN [parser |-> p, heap |-> heap, result |-> g.result]
  ELSE [parser |-> p, heap |-> [heap EXCEPT ![g.arg].deprecated = deprecated],
        result |-> STATUS_SUCCESS]

(***************************************************************************)
(* src/src/argparser.c: the scan of the command line.                      *)
(*                                                                         *)
(* The operators below thread the pair (parser, heap of argument records)  *)
(* through the calls; crashed says that the call dereferenced a NULL       *)
(* pointer and the process has stopped there.                              *)
(***************************************************************************)
\* errors the parser can hold before an allocation in add_error_to_parser
\* fails (bound of the model)
MaxErrors == 4

\* the width of the unsigned short index parameters
UShortWidth == 65536
\* the size of the message buffers of validate_argument_type
MessageSize == 50

\* concat_argv: argv[1] .. argv[argc - 1] joined by single spaces (argv[0],
\* the program name, is left out); i is the C index, argv[i + 1] the token
RECURSIVE JoinArgv(_, _, _)
JoinArgv(argc, argv, i) ==
  IF i >= argc THEN << >>
  ELSE argv[i + 1] \o (IF i # argc - 1 THEN << " " >> ELSE << >>)
         \o JoinArgv(argc, argv, i + 1)

concat_argv(argc, argv) == JoinArgv(argc, argv, 1)

\* The flags table stores its values by memcpy of sizeof(char *) = 8 bytes
\* from the name: a name of fewer than 8 characters arrives with its
\* terminator, a longer one is cut and unterminated.
PointerSize == 8
FlagValue(name) ==
  IF Len(name) < PointerSize
  THEN [chars |-> name, terminated |-> TRUE]
  ELSE [chars |-> SubSeq(name, 1, PointerSize), terminated |-> FALSE]

\* the C string read at a flags value: an unterminated value runs on into
\* the bytes tail that follow its allocation
CString(v, tail) == IF v.terminated THEN v.chars ELSE v.chars \o tail

\* the loop of separate_opt_args over the "flag,name" items
RECURSIVE InsertFlags(_, _)
InsertFlags(items, flags) ==
  IF Len(items) = 0 THEN flags
  ELSE LET s == string_slice_split(string_slice_to_string(items[1]), ",")
           flag == string_slice_to_string(s.output)
           name == string_slice_to_string(s.ss)
           next ==
             IF ~StartsWithAt(flag, 0, NO_FLAG) /\ StartsWithAt(name, 0, NO_NAME)
             THEN hash_table_insert(flags, flag, FlagValue(NO_NAME)).ht
             ELSE IF ~StartsWithAt(name, 0, NO_NAME)
                       /\ StartsWithAt(flag, 0, NO_FLAG)
             THEN flags
             ELSE hash_table_insert(flags, flag, FlagValue(name)).ht
       IN InsertFlags(Tail(items), next)

separate_opt_args(p) ==
  InsertFlags(SplitAll(string_slice_trim(p.optional_args), " "),
              hash_table_create(FALSE))

\* separate_pos_args with each name put in front of the array instead of
\* behind it
separate_pos_args_prepending(p) ==
  LET items == SplitAll(string_slice_trim(p.positional_args), " ")
  IN [n \in 1 .. Len(items) |->
        string_slice_to_string(items[Len(items) + 1 - n])]

\* separate_pos_args: the positional names, in the order of the list
separate_pos_args(p) ==
  LET items == SplitAll(string_slice_trim(p.positional_args), " ")
  IN [n \in 1 .. Len(items) |-> string_slice_to_string(items[n])]

\* add_error_to_parser; detail is the text a conversion error quotes
ErrorRecord(short_name, long_name, message, detail) ==
  [short_name |-> short_name, long_name |-> long_name, message |-> message,
   detail |-> detail]

add_error_to_parser(p, short_name, long_name, message, detail) ==
  IF Len(p.errors.items) >= MaxErrors
  THEN p
  ELSE [p EXCEPT !.errors =
          [created |-> TRUE,
           items |-> Append(@.items,
                       ErrorRecord(short_name, long_name, message, detail))]]

\* appending a token and a space to unrecognized_args, created on first use
Unrecognized(p, token) ==
  [p EXCEPT !.unrecognized_args =
     (IF @ = NULLSTR THEN << >> ELSE @) \o token \o << " " >>]

(***************************************************************************)
(* strtol(str, &endptr, 10) for a long of 64 bits.  Values are kept as     *)
(* decimal digit strings, so the range check is exact.                     *)
(***************************************************************************)
LONG_MAX_DIGITS ==
  << "9","2","2","3","3","7","2","0","3","6","8","5","4","7","7","5","8","0","7" >>
LONG_MIN_DIGITS ==
  << "9","2","2","3","3","7","2","0","3","6","8","5","4","7","7","5","8","0","8" >>

\* the number of leading digits of s from position n on
RECURSIVE DigitRun(_, _)
DigitRun(s, n) ==
  IF n <= Len(s) /\ isdigit(s[n]) THEN 1 + DigitRun(s, n + 1) ELSE 0

RECURSIVE StripZeros(_)
StripZeros(d) ==
  IF Len(d) > 1 /\ d[1] = "0" THEN StripZeros(Tail(d)) ELSE d

\* a > b for digit strings without leading zeros
RECURSIVE DigitsGreater(_, _)
DigitsGreater(a, b) ==
  IF Len(a) # Len(b) THEN Len(a) > Len(b)
  ELSE IF Len(a) = 0 THEN FALSE
  ELSE IF a[1] # b[1] THEN Ord(a[1]) > Ord(b[1])
  ELSE DigitsGreater(Tail(a), Tail(b))

\* consumed: the characters up to endptr; erange: errno == ERANGE
strtol(str) ==
  LET signed == Len(str) > 0 /\ str[1] \in {"-", "+"}
      first == IF signed THEN 2 ELSE 1
      n == DigitRun(str, first)
      digits == StripZeros(SubSeq(str, first, first + n - 1))
      negative == signed /\ str[1] = "-"
  IN IF n = 0
     THEN [consumed |-> 0, erange |-> FALSE, negative |-> FALSE,
           digits |-> << "0" >>]
     ELSE [consumed |-> first - 1 + n,
           erange |-> DigitsGreater(digits, IF negative THEN LONG_MIN_DIGITS
                                            ELSE LONG_MAX_DIGITS),
           negative |-> negative /\ digits # << "0" >>,
           digits |-> digits]

\* what arg->value points to
LongValue(negative, digits) ==
  [tag |-> "long", data |-> [negative |-> negative, digits |-> digits]]
StringValue(str) == [tag |-> "string", data |-> str]
\* a pointer to storage that has been freed
DANGLING == [tag |-> "freed", data |-> 0]

\* validate_argument_type for AP_ARG_INT and AP_ARG_STRING (no caller of
\* the model sets AP_ARG_FLOAT).  a is the argument record's index.
validate_argument_type(p, heap, a, arg_value) ==
  LET arg == heap[a]
      released == IF arg.value # NULLPTR THEN DANGLING ELSE NULLPTR
  IN IF arg.type = AP_ARG_INT
     THEN IF arg_value = NULLSTR
          THEN [parser |-> p, heap |-> [heap EXCEPT ![a].value = released],
                result |-> STATUS_SUCCESS, crashed |-> TRUE]
          ELSE LET r == strtol(arg_value) IN
               IF r.erange
               THEN [parser |-> add_error_to_parser(p, arg.short_name,
                                  arg.long_name,
                                  "numerical result is out of range", << >>),
                     heap |-> [heap EXCEPT ![a].value = released],
                     result |-> 1, crashed |-> FALSE]
               ELSE IF r.consumed = 0 \/ r.consumed < Len(arg_value)
               THEN [parser |-> add_error_to_parser(p, arg.short_name,
                                  arg.long_name, "invalid int value",
                                  SubSeq(arg_value, 1,
                                         IF Len(arg_value) < MessageSize - 21
                                         THEN Len(arg_value)
                                         ELSE MessageSize - 21)),
                     heap |-> [heap EXCEPT ![a].value = released],
                     result |-> 2, crashed |-> FALSE]
               ELSE [parser |-> p,
                     heap |-> [heap EXCEPT ![a].value =
                                 LongValue(r.negative, r.digits)],
                     result |-> STATUS_SUCCESS, crashed |-> FALSE]
     ELSE IF arg.type = AP_ARG_STRING
     THEN [parser |-> p,
           heap |-> [heap EXCEPT ![a].value =
                       IF arg_value = NULLSTR THEN NULLPTR
                       ELSE StringValue(arg_value)],
           result |-> STATUS_SUCCESS, crashed |-> FALSE]
     ELSE [parser |-> p, heap |-> [heap EXCEPT ![a].value = released],
           result |-> STATUS_SUCCESS, crashed |-> FALSE]

\* the first position at or after index that holds a space or the NUL
RunEnd(s, index) ==
  IF index >= Len(s) THEN index
  ELSE CHOOSE end \in index .. Len(s) :
         /\ end = Len(s) \/ s[end + 1] = " "
         /\ \A k \in index .. end - 1 : s[k + 1] # " "

\* validate_argument: a = 0 is the NULL argument; index arrives through an
\* unsigned short
validate_argument(p, heap, a, args_str, index) ==
  LET start == index % UShortWidth IN
  IF a = 0
  THEN [parser |-> p, heap |-> heap, index |-> start, crashed |-> TRUE]
  ELSE IF heap[a].action # AP_ARG_STORE
  THEN [parser |-> p, heap |-> heap, index |-> start, crashed |-> FALSE]
  ELSE LET from == IF CharAt(args_str, start) = " "
                   THEN (start + 1) % UShortWidth ELSE start
           end == RunEnd(args_str, from) % UShortWidth
           arg_value == string_slice_to_string(
                          SubSeq(args_str, from + 1, end))
           p1 == IF end = from /\ CharAt(args_str, from) = NUL
                 THEN add_error_to_parser(p, heap[a].short_name,
                        heap[a].long_name, "expected one argument", << >>)
                 ELSE p
           r == validate_argument_type(p1, heap, a, arg_value)
       IN [parser |-> r.parser, heap |-> r.heap, index |-> end,
           crashed |-> r.crashed]

\* get_arg_name: the run of characters from index to the next space
get_arg_name(args_str, index) ==
  LET end == RunEnd(args_str, index)
      name == string_slice_to_string(SubSeq(args_str, index + 1, end))
  IN IF end >= Len(args_str)
     THEN [result |-> STATUS_OUT_OF_BOUNDS, name |-> name]
     ELSE [result |-> IF name = NULLSTR THEN 1 ELSE STATUS_SUCCESS,
           name |-> name]

\* the argument record a lookup in parser->arguments leaves in arg (0: NULL)
ArgAt(p, key) ==
  LET r == hash_table_search(p.arguments, key, NULLPTR) IN
  IF r.result = STATUS_SUCCESS THEN r.value.data ELSE 0

\* is_valid_arg_flag: TRUE for the return value 0.  tail: the bytes after an
\* unterminated flags value.
is_valid_arg_flag(p, flags, tail, flag) ==
  LET flag_str == IF flag = NUL THEN << "-" >> ELSE << "-", flag >>
      r == hash_table_search(flags, flag_str, NULLPTR)
  IN IF r.result = STATUS_SUCCESS
        /\ ~StartsWithAt(r.value.data.chars, 0, NO_NAME)
     THEN hash_table_search(p.arguments, CString(r.value.data, tail),
                            NULLPTR).result = STATUS_SUCCESS
     ELSE hash_table_search(p.arguments, flag_str, NULLPTR).result
            = STATUS_SUCCESS

\* is_valid_arg_name: TRUE for the return value 0
is_valid_arg_name(p, name) ==
  hash_table_search(p.arguments, name, NULLPTR).result = STATUS_SUCCESS

\* parse_positional_argument; args_num counts from 1
parse_positional_argument(p, heap, args_str, index, args_num, pos_args) ==
  LET start == index % UShortWidth
      name == IF args_num - 1 < Len(pos_args) THEN pos_args[args_num]
              ELSE NULLSTR
  IN IF name # NULLSTR
     THEN validate_argument(p, heap, ArgAt(p, name), args_str, start)
     ELSE LET token == get_arg_name(args_str, start).name IN
          IF token = NULLSTR
          THEN [parser |-> p, heap |-> heap, index |-> start,
                crashed |-> TRUE]
          ELSE [parser |-> Unrecognized(p, token), heap |-> heap,
                index |-> (start + Len(token)) % UShortWidth,
                crashed |-> FALSE]

\* parse_optional_argument, case ARG_KIND_OPT_FLAG: index is the position of
\* the flag letter
parse_optional_flag(p, heap, args_str, index, flags, tail) ==
  LET letter == CharAt(args_str, index)
      concat_str == IF letter = NUL THEN << "-" >> ELSE << "-", letter >>
  IN IF index + 1 < Len(args_str)
        /\ is_valid_arg_flag(p, flags, tail, letter)
        /\ is_valid_arg_flag(p, flags, tail, CharAt(args_str, index + 1))
     THEN [parser |-> add_error_to_parser(p, NULLSTR, concat_str,
                        "expected one argument", << >>),
           heap |-> heap, index |-> index, crashed |-> FALSE]
     ELSE LET found == hash_table_search(flags, concat_str, NULLPTR) IN
          IF found.result = STATUS_SUCCESS
             /\ ~StartsWithAt(found.value.data.chars, 0, NO_NAME)
          THEN validate_argument(p, heap,
                 ArgAt(p, CString(found.value.data, tail)), args_str,
                 index + 1)
          ELSE IF found.result = STATUS_SUCCESS
          THEN validate_argument(p, heap, ArgAt(p, concat_str), args_str,
                                 index + 1)
          ELSE [parser |-> Unrecognized(p, IF letter = NUL THEN << "-", NUL >>
                                           ELSE concat_str),
                heap |-> heap, index |-> index + 1, crashed |-> FALSE]

\* parse_optional_argument, case ARG_KIND_OPT_NAME
parse_optional_name(p, heap, args_str, index) ==
  LET g == get_arg_name(args_str, index) IN
  IF g.result = STATUS_OUT_OF_BOUNDS
  THEN [parser |-> add_error_to_parser(p, g.name, NULLSTR,
                     "expected one argument", << >>),
        heap |-> heap, index |-> Len(args_str), crashed |-> FALSE]
  ELSE LET a == ArgAt(p, g.name) IN
       IF a # 0
       THEN validate_argument(p, heap, a, args_str, index + Len(g.name))
       ELSE [parser |-> Unrecognized(p, g.name), heap |-> heap,
             index |-> index + Len(g.name), crashed |-> FALSE]

(***************************************************************************)
(* src/src/dynamic_array.c                                                 *)
(*                                                                         *)
(* The storage of an array is the sequence of the bytes of its allocation; *)
(* a reference into it is a byte offset from array->items.  items points   *)
(* to pointers, so items + n, without a cast, is PointerSize * n bytes     *)
(* further on; cast to a pointer to void it is n bytes further on.  A byte *)
(* read outside                                                            *)
(* the allocation, or from a part of it that was never written, is         *)
(* indeterminate: the caller of an operator passes the byte such a read    *)
(* yields as stray.  A byte written outside the allocation is not kept;    *)
(* oob records that the call touched a byte outside the allocation.        *)
(***************************************************************************)
DYNAMIC_ARRAY_INTIAL_CAPACITY == 8

\* the bytes an indeterminate read may yield in the model: a zero byte and a
\* byte no item holds
StrayBytes == {0, 1}

\* length zero bytes, as calloc and memset leave them
Zeros(length) == [n \in 1 .. length |-> 0]

\* the length bytes at the byte offset off of the allocation mem
Read(mem, off, length, stray) ==
  [n \in 1 .. length |-> IF off + n <= Len(mem) THEN mem[off + n] ELSE stray]

\* the allocation mem after bytes was copied to its byte offset off
Write(mem, off, bytes) ==
  [n \in 1 .. Len(mem) |->
     IF n > off /\ n <= off + Len(bytes) THEN bytes[n - off] ELSE mem[n]]

\* TRUE if length bytes at the byte offset off lie inside the allocation
InBounds(mem, off, length) == length = 0 \/ off + length <= Len(mem)

\* realloc(mem, length): the bytes kept, then indeterminate ones
Realloc(mem, length, stray) ==
  [n \in 1 .. length |-> IF n <= Len(mem) THEN mem[n] ELSE stray]

\* dynamic_array_resize
dynamic_array_resize(array, stray) ==
  LET old_capacity == array.capacity
      capacity == 2 * old_capacity
      grown == Realloc(array.items, array.data_size * capacity, stray)
      start == old_capacity * array.data_size
      length == capacity - old_capacity
  IN [array EXCEPT
        !.capacity = capacity,
        !.items = Write(grown, start, Zeros(length)),
        !.oob = @ \/ ~InBounds(grown, start, length)]

\* dynamic_array_create: items is NULL, here the allocation of no bytes
dynamic_array_create(data_size) ==
  [created |-> TRUE, items |-> << >>,
   capacity |-> DYNAMIC_ARRAY_INTIAL_CAPACITY, size |-> 0,
   data_size |-> data_size, oob |-> FALSE]

\* dynamic_array_add of an item of data_size bytes
dynamic_array_add(array, item, stray) ==
  LET fresh == IF array.size = 0
               THEN [array EXCEPT
                       !.items = Zeros(array.capacity * array.data_size)]
               ELSE array
      roomy == IF fresh.size = fresh.capacity
               THEN dynamic_array_resize(fresh, stray) ELSE fresh
      off == roomy.data_size * roomy.size
  IN [array |-> [roomy EXCEPT
                   !.items = Write(@, off, item),
                   !.size = @ + 1,
                   !.oob = @ \/ ~InBounds(roomy.items, off, Len(item))],
      result |-> STATUS_SUCCESS]

\* the loop of dynamic_array_add_many that calls dynamic_array_resize until
\* the capacity holds needed items; the capacity is not 0
RECURSIVE ResizedFor(_, _, _)
ResizedFor(array, needed, stray) ==
  IF array.capacity < needed
  THEN ResizedFor(dynamic_array_resize(array, stray), needed, stray)
  ELSE array

\* dynamic_array_add_many of length items, items the bytes of the source.
\* The first test reads a pointer at the start of the source.  Doubling a
\* capacity of 0 leaves it 0: the loop is then never left, returns is FALSE.
dynamic_array_add_many(array, items, length, stray) ==
  IF Read(items, 0, PointerSize, stray) = Zeros(PointerSize)
  THEN [array |-> array, result |-> STATUS_IS_NULL, returns |-> TRUE]
  ELSE LET fresh == IF array.size = 0
                    THEN [array EXCEPT
                            !.items = Zeros(array.capacity * array.data_size)]
                    ELSE array
       IN IF fresh.capacity < fresh.size + length /\ fresh.capacity = 0
          THEN [array |-> fresh, result |-> STATUS_SUCCESS, returns |-> FALSE]
          ELSE LET roomy == ResizedFor(fresh, fresh.size + length, stray)
                   off == roomy.size * roomy.data_size
                   bytes == Read(items, 0, roomy.data_size * length, stray)
               IN [array |-> [roomy EXCEPT
                                !.items = Write(@, off, bytes),
                                !.size = @ + length,
                                !.oob = @ \/ ~InBounds(roomy.items, off,
                                                       Len(bytes))],
                   result |-> STATUS_SUCCESS, returns |-> TRUE]

\* dynamic_array_get_size
dynamic_array_get_size(array) == array.size

\* dynamic_array_is_empty
dynamic_array_is_empty(array) == array.size = 0

\* dynamic_array_find: item is what the call copied out, oob whether it read
\* outside the allocation
dynamic_array_find(array, index, stray) ==
  IF dynamic_array_is_empty(array)
  THEN [result |-> STATUS_IS_EMPTY, item |-> << >>, oob |-> FALSE]
  ELSE IF index >= array.size
  THEN [result |-> STATUS_OUT_OF_BOUNDS, item |-> << >>, oob |-> FALSE]
  ELSE [result |-> STATUS_SUCCESS,
        item |-> Read(array.items, PointerSize * index, array.data_size,
                      stray),
        oob |-> ~InBounds(array.items, PointerSize * index, array.data_size)]

\* dynamic_array_find_ref: ref is the byte offset of the reference returned
dynamic_array_find_ref(array, index) ==
  IF array.size = 0 THEN [result |-> STATUS_IS_EMPTY, ref |-> 0]
  ELSE IF index >= array.size
  THEN [result |-> STATUS_OUT_OF_BOUNDS, ref |-> 0]
  ELSE [result |-> STATUS_SUCCESS, ref |-> index * array.data_size]

\* dynamic_array_remove
dynamic_array_remove(array, index, stray) ==
  IF dynamic_array_is_empty(array)
  THEN [array |-> array, result |-> STATUS_IS_EMPTY]
  ELSE IF index >= array.size
  THEN [array |-> array, result |-> STATUS_OUT_OF_BOUNDS]
  ELSE LET size == array.size - 1
           length == array.data_size * size
           to == PointerSize * index
           from == PointerSize * (index + 1)
       IN [array |->
             [array EXCEPT
                !.size = size,
                !.items = Write(@, to, Read(@, from, length, stray)),
                !.oob = @ \/ ~InBounds(array.items, from, length)
                          \/ ~InBounds(array.items, to, length)],
           result |-> STATUS_SUCCESS]

\* dynamic_array_iter_create: the iterator shares the storage of the array
dynamic_array_iter_create(array) ==
  [created |-> TRUE, items |-> array.items, size |-> array.size,
   data_size |-> array.data_size, index |-> 0]

\* dynamic_array_iter_next: ref is the byte offset of the reference returned
dynamic_array_iter_next(it) ==
  IF it.size = 0 THEN [it |-> it, result |-> STATUS_IS_EMPTY, ref |-> 0]
  ELSE IF it.index >= it.size
  THEN [it |-> it, result |-> STATUS_OUT_OF_BOUNDS, ref |-> 0]
  ELSE [it |-> [it EXCEPT !.index = @ + 1], result |-> STATUS_SUCCESS,
        ref |-> PointerSize * (it.index * it.data_size)]

\* dynamic_array_iter_reset
dynamic_array_iter_reset(it) == [it EXCEPT !.index = 0]

\* dynamic_array_shrink_to_fit
dynamic_array_shrink_to_fit(array, stray) ==
  IF array.size = array.capacity THEN array
  ELSE [array EXCEPT
          !.items = Realloc(@, array.size * array.data_size, stray),
          !.capacity = array.size]

(***************************************************************************)
(* src/src/string_builder.c: a builder is an array of chars.               *)
(***************************************************************************)
\* the capacity of a builder that was created and then appended to until it
\* held length characters: dynamic_array_add and dynamic_array_add_many
\* double the capacity when the next characters do not fit
RECURSIVE CapacityFor(_, _)
CapacityFor(length, capacity) ==
  IF length <= capacity THEN capacity ELSE CapacityFor(length, 2 * capacity)

\* such a builder holding the characters chars; the storage after them is
\* zeroed by calloc and dynamic_array_resize
BuilderOf(chars) ==
  LET capacity == CapacityFor(Len(chars), DYNAMIC_ARRAY_INTIAL_CAPACITY) IN
  [dynamic_array_create(1) EXCEPT
     !.items = [n \in 1 .. capacity |->
                  IF n <= Len(chars) THEN chars[n] ELSE NUL],
     !.capacity = capacity,
     !.size = Len(chars)]

\* the characters a builder holds
CharsOf(sb) == SubSeq(sb.items, 1, sb.size)

\* string_builder_build handing out the storage of the builder itself
string_builder_build_moving(sb) ==
  [sb |-> [dynamic_array_create(1) EXCEPT !.capacity = 0],
   buffer |-> SubSeq(sb.items, 1, sb.size)]

\* string_builder_build: the builder afterwards and the characters of
\* *buffer before its terminator.  No byte read is indeterminate: the copy
\* is of the size bytes that were appended.
string_builder_build(sb) ==
  LET shrunk == dynamic_array_shrink_to_fit(sb, NUL)
      bytes == dynamic_array_get_size(shrunk)
      item == dynamic_array_find_ref(shrunk, 0)
  IN [sb |-> shrunk,
      buffer |-> IF item.result = STATUS_SUCCESS
                 THEN Read(shrunk.items, item.ref, bytes, NUL) ELSE << >>]

\* the text string_builder_build yields for the builder that holds chars
Built(chars) == string_builder_build(BuilderOf(chars)).buffer

\* what the builder that holds chars holds after string_builder_build
AfterBuild(chars) == CharsOf(string_builder_build(BuilderOf(chars)).sb)

(***************************************************************************)
(* print_errors: the lines written to stderr.                              *)
(***************************************************************************)
REQUIRED_PREFIX == "the following argument(s) are required: "

\* the "short/long " text print_errors writes for an argument record
AliasText(arg) ==
  (IF arg.short_name # NULLSTR THEN arg.short_name ELSE << >>)
    \o (IF arg.short_name # NULLSTR /\ arg.long_name # NULLSTR
        THEN << "/" >> ELSE << >>)
    \o (IF arg.long_name # NULLSTR THEN arg.long_name ELSE << >>)
    \o << " " >>

\* the loop over the ledger items: the text appended to the required line
RECURSIVE MissingRequiredText(_, _, _)
MissingRequiredText(p, heap, items) ==
  IF Len(items) = 0 THEN << >>
  ELSE LET s == string_slice_split(string_slice_to_string(items[1]), ",")
           flag == string_slice_to_string(s.output)
           name == string_slice_to_string(s.ss)
           a == IF ~StartsWithAt(flag, 0, NO_FLAG)
                   /\ StartsWithAt(name, 0, NO_NAME)
                THEN ArgAt(p, flag) ELSE ArgAt(p, name)
       IN (IF heap[a].value = NULLPTR THEN AliasText(heap[a]) ELSE << >>)
            \o MissingRequiredText(p, heap, Tail(items))

\* the names of the positionals from index n (0-based) on, each with a space
RECURSIVE PositionalsFrom(_, _, _)
PositionalsFrom(pos_args, n, size) ==
  IF n >= size THEN << >>
  ELSE pos_args[n + 1] \o << " " >> \o PositionalsFrom(pos_args, n + 1, size)

ErrorLines(p) ==
  IF p.errors.created
  THEN [n \in 1 .. Len(p.errors.items) |->
          [line |-> "error", error |-> p.errors.items[n], text |-> << >>]]
  ELSE << >>

UnrecognizedLines(p) ==
  IF p.unrecognized_args # NULLSTR
  THEN << [line |-> "unrecognized argument(s): ", error |-> NULLSTR,
           text |-> Built(p.unrecognized_args)] >>
  ELSE << >>

RequiredLine(text) ==
  << [line |-> REQUIRED_PREFIX, error |-> NULLSTR, text |-> text] >>

\* the lines of the required-optional block (lines 868-984)
RequiredOptionalLines(p, heap, current_pos_count) ==
  IF p.req_opt_args # NULLSTR /\ current_pos_count = p.pos_args_size
  THEN RequiredLine(MissingRequiredText(p, heap,
         SplitAll(string_slice_trim(Built(p.req_opt_args)), " ")))
  ELSE << >>

\* the lines of the missing-positional block (lines 986-1013)
MissingPositionalLines(p, heap, pos_args, current_pos_count) ==
  IF current_pos_count < p.pos_args_size
  THEN RequiredLine(
         (IF p.req_opt_args # NULLSTR
          THEN MissingRequiredText(p, heap,
                 SplitAll(string_slice_trim(Built(p.req_opt_args)), " "))
          ELSE << >>)
         \o (IF current_pos_count = 0 THEN Built(p.positional_args)
             ELSE PositionalsFrom(pos_args, current_pos_count,
                                  p.pos_args_size)))
  ELSE << >>

print_errors(p, heap, pos_args, current_pos_count) ==
  ErrorLines(p) \o UnrecognizedLines(p)
    \o RequiredOptionalLines(p, heap, current_pos_count)
    \o MissingPositionalLines(p, heap, pos_args, current_pos_count)

\* AfterPrintErrors with the ledger used up by the split that walks it
AfterPrintErrors_consuming_the_ledger(p, current_pos_count) ==
  [p EXCEPT
     !.unrecognized_args = IF @ # NULLSTR THEN AfterBuild(@) ELSE @,
     !.req_opt_args = IF @ # NULLSTR THEN << >> ELSE @,
     !.positional_args =
        IF current_pos_count < p.pos_args_size /\ current_pos_count = 0
        THEN AfterBuild(@) ELSE @]

\* the parser print_errors leaves: every builder it passed to
\* string_builder_build holds what that call left in it
AfterPrintErrors(p, current_pos_count) ==
  [p EXCEPT
     !.unrecognized_args = IF @ # NULLSTR THEN AfterBuild(@) ELSE @,
     !.req_opt_args = IF @ # NULLSTR THEN AfterBuild(@) ELSE @,
     !.positional_args =
        IF current_pos_count < p.pos_args_size /\ current_pos_count = 0
        THEN AfterBuild(@) ELSE @]

\* the condition under which argparser_parse_args calls print_errors
HasDiagnostics(p, current_pos_count) ==
  \/ p.errors.created
  \/ p.unrecognized_args # NULLSTR
  \/ current_pos_count < p.pos_args_size
  \/ p.req_opt_args # NULLSTR

(***************************************************************************)
(* A client of the array: it creates an array of some element size,        *)
(* pushes items that differ in every byte, and reads, removes and iterates.*)
(***************************************************************************)
VARIABLES
  array,    \* the array
  it,       \* the iterator
  daLast,   \* the last call: its name, index, status and what it yielded
  daPushed  \* the items the calls so far leave in the array, in order

daVars == << array, it, daLast, daPushed >>

\* bounds of the model: items pushed and items removed
MaxPushes == 17
MaxRemoves == 1

\* the element sizes of the clients: char, int and pointer
DataSizes == {1, 4, PointerSize}

\* the bytes of the e-th item pushed
Item(e, data_size) == [n \in 1 .. data_size |-> 8 * e + n - 1]

NoArray ==
  [created |-> FALSE, items |-> << >>, capacity |-> 0, size |-> 0,
   data_size |-> 0, oob |-> FALSE]
NoIter ==
  [created |-> FALSE, items |-> << >>, size |-> 0, data_size |-> 0,
   index |-> 0]

DaCalled(op, index, status, item, oob) ==
  [op |-> op, index |-> index, result |-> status, item |-> item, oob |-> oob]

DaInit ==
  /\ array = NoArray
  /\ it = NoIter
  /\ daLast = DaCalled("none", 0, STATUS_SUCCESS, << >>, FALSE)
  /\ daPushed = [pushed |-> 0, removed |-> 0, items |-> << >>]

\* dynamic_array_create(&array, data_size, NULL, NULL)
DaCreate(data_size) ==
  /\ ~array.created
  /\ array' = dynamic_array_create(data_size)
  /\ daLast' = DaCalled("create", 0, STATUS_SUCCESS, << >>, FALSE)
  /\ UNCHANGED << it, daPushed >>

\* dynamic_array_add(array, &item), item the next of the items
DaAdd ==
  /\ array.created
  /\ daPushed.pushed < MaxPushes
  /\ \E stray \in StrayBytes :
       LET item == Item(daPushed.pushed + 1, array.data_size)
           r == dynamic_array_add([array EXCEPT !.oob = FALSE], item, stray)
       IN /\ array' = r.array
          /\ daLast' = DaCalled("add", array.size, r.result, item,
                                r.array.oob)
          /\ daPushed' = [daPushed EXCEPT !.pushed = @ + 1,
                                          !.items = Append(@, item)]
  /\ UNCHANGED it

\* dynamic_array_find(array, index, &item)
DaFind(index) ==
  /\ array.created
  /\ \E stray \in StrayBytes :
       LET r == dynamic_array_find(array, index, stray) IN
       daLast' = DaCalled("find", index, r.result, r.item, r.oob)
  /\ UNCHANGED << array, it, daPushed >>

\* dynamic_array_find_ref(array, index, &item) and a read of *item
DaFindRef(index) ==
  /\ array.created
  /\ \E stray \in StrayBytes :
       LET r == dynamic_array_find_ref(array, index) IN
       daLast' =
         IF r.result # STATUS_SUCCESS
         THEN DaCalled("find_ref", index, r.result, << >>, FALSE)
         ELSE DaCalled("find_ref", index, r.result,
                       Read(array.items, r.ref, array.data_size, stray),
                       ~InBounds(array.items, r.ref, array.data_size))
  /\ UNCHANGED << array, it, daPushed >>

\* s without its element of C index index
Without(s, index) ==
  [n \in 1 .. Len(s) - 1 |-> IF n <= index THEN s[n] ELSE s[n + 1]]

\* dynamic_array_remove(array, index)
DaRemove(index) ==
  /\ array.created
  /\ daPushed.removed < MaxRemoves
  /\ \E stray \in StrayBytes :
       LET r == dynamic_array_remove([array EXCEPT !.oob = FALSE], index,
                                     stray)
       IN /\ array' = r.array
          /\ daLast' = DaCalled("remove", index, r.result, << >>,
                                r.array.oob)
          /\ daPushed' =
               IF r.result = STATUS_SUCCESS
               THEN [daPushed EXCEPT !.removed = @ + 1,
                                     !.items = Without(@, index)]
               ELSE daPushed
  /\ UNCHANGED it

\* the bytes of the items e + 1 .. e + length, one after the other
RECURSIVE ItemsFrom(_, _, _)
ItemsFrom(e, length, data_size) ==
  IF length = 0 THEN << >>
  ELSE Item(e + 1, data_size) \o ItemsFrom(e + 1, length - 1, data_size)

\* FALSE once a call has entered a loop it never leaves
DaReturned == daLast.result # NoReturn

\* dynamic_array_add_many(array, items, length), items the next length items
DaAddMany(length) ==
  /\ array.created
  /\ DaReturned
  /\ daPushed.pushed + length <= MaxPushes
  /\ \E stray \in StrayBytes :
       LET items == ItemsFrom(daPushed.pushed, length, array.data_size)
           r == dynamic_array_add_many([array EXCEPT !.oob = FALSE], items,
                                       length, stray)
       IN /\ array' = r.array
          /\ daLast' = DaCalled("add_many", array.size,
                                IF r.returns THEN r.result ELSE NoReturn,
                                items, r.array.oob)
          /\ daPushed' =
               IF r.returns /\ r.result = STATUS_SUCCESS
               THEN [daPushed EXCEPT
                       !.pushed = @ + length,
                       !.items = @ \o [n \in 1 .. length |->
                                         Item(daPushed.pushed + n,
                                              array.data_size)]]
               ELSE daPushed
  /\ UNCHANGED it

\* dynamic_array_shrink_to_fit(array)
DaShrinkToFit ==
  /\ array.created
  /\ DaReturned
  /\ \E stray \in StrayBytes :
       array' = dynamic_array_shrink_to_fit(array, stray)
  /\ daLast' = DaCalled("shrink_to_fit", 0, STATUS_SUCCESS, << >>, FALSE)
  /\ UNCHANGED << it, daPushed >>

\* dynamic_array_iter_create(&it, array)
DaIterCreate ==
  /\ array.created
  /\ ~it.created
  /\ it' = dynamic_array_iter_create(array)
  /\ daLast' = DaCalled("iter_create", 0, STATUS_SUCCESS, << >>, FALSE)
  /\ UNCHANGED << array, daPushed >>

\* dynamic_array_iter_next(it, &item) and a read of *item
DaIterNext ==
  /\ it.created
  /\ \E stray \in StrayBytes :
       LET r == dynamic_array_iter_next(it) IN
       /\ it' = r.it
       /\ daLast' =
            IF r.result # STATUS_SUCCESS
            THEN DaCalled("iter_next", it.index, r.result, << >>, FALSE)
            ELSE DaCalled("iter_next", it.index, r.result,
                          Read(it.items, r.ref, it.data_size, stray),
                          ~InBounds(it.items, r.ref, it.data_size))
  /\ UNCHANGED << array, daPushed >>

\* dynamic_array_iter_reset(it)
DaIterReset ==
  /\ it.created
  /\ it' = dynamic_array_iter_reset(it)
  /\ daLast' = DaCalled("iter_reset", 0, STATUS_SUCCESS, << >>, FALSE)
  /\ UNCHANGED << array, daPushed >>

(***************************************************************************)
(* The program: a parser is created, arguments are registered and          *)
(* configured (pc = "register"), and argparser_parse_args scans one        *)
(* command line.  The scan is modelled loop iteration by loop iteration:   *)
(* pc = "for" at the head of the for loop (line 1505), pc = "while" at the *)
(* head of the flag loop (line 1531), pc = "done" after the return and     *)
(* pc = "crashed" after a NULL pointer was dereferenced.  reported holds   *)
(* what each call of argparser_parse_args that returned has printed.       *)
(***************************************************************************)
VARIABLES parser, heap, last, pc, argv, args_str, i, current_pos_count,
          flags, pos_args, concat_str, tail, iterations, output, result,
          reported

apVars == << parser, heap, last, pc, argv, args_str, i, current_pos_count,
             flags, pos_args, concat_str, tail, iterations, output, result,
             reported >>
scanVars == << argv, args_str, i, current_pos_count, flags, pos_args,
               concat_str, tail, iterations, output, result, reported >>
vars == << ht, htStored, htLast, htReturns, array, it, daLast, daPushed,
           parser, heap, last, pc, argv, args_str, i, current_pos_count,
           flags, pos_args, concat_str, tail, iterations, output, result,
           reported >>

\* bounds of the model: argument records, ledger entries, tokens after
\* argv[0], the wrap of iterations, the count of loop tests executed, and
\* the calls of argparser_parse_args on one parser
MaxArgs == 2
MaxRequired == 1
MaxArgc == 2
IterWrap == 2
MaxParses == 2

\* argv[0]
PROGRAM == << "t", "e", "s", "t" >>

\* the record of the last registration call: what was passed, what came
\* back, and the names the registry held before the call
NoCall ==
  [op |-> "none", short_name |-> NULLSTR, long_name |-> NULLSTR,
   kind |-> 0, result |-> STATUS_SUCCESS, known |-> {}]

\* the names under which some argument record is registered
RegisteredNames(h) ==
  ({h[n].short_name : n \in 1 .. Len(h)}
     \cup {h[n].long_name : n \in 1 .. Len(h)}) \ {NULLSTR}

ApInit ==
  /\ parser = argparser_create
  /\ heap = << >>
  /\ last = NoCall
  /\ pc = "register"
  /\ argv = << PROGRAM >>
  /\ args_str = << >>
  /\ i = 0
  /\ current_pos_count = 0
  /\ flags = hash_table_create(FALSE)
  /\ pos_args = << >>
  /\ concat_str = << >>
  /\ tail = << >>
  /\ iterations = 0
  /\ output = << >>
  /\ result = STATUS_SUCCESS
  /\ reported = << >>

\* argparser_add_argument(parser, short_name, long_name)
AddArgument(short_name, long_name) ==
  /\ pc = "register"
  /\ Len(heap) < MaxArgs
  /\ LET r == argparser_add_argument(parser, heap, short_name, long_name) IN
       /\ parser' = r.parser
       /\ heap' = r.heap
       /\ last' = [op |-> "add_argument", short_name |-> short_name,
                   long_name |-> long_name,
                   kind |-> determine_argument(short_name, long_name),
                   result |-> r.result, known |-> RegisteredNames(heap)]
  /\ UNCHANGED << pc, scanVars, htVars, daVars >>

\* what a setter call leaves in last
SetterCall(op, name_or_flag, r) ==
  [op |-> op, short_name |-> name_or_flag, long_name |-> NULLSTR,
   kind |-> 0, result |-> r.result, known |-> RegisteredNames(heap)]

\* argparser_add_action_to_arg(parser, name_or_flag, action)
SetAction(name_or_flag, action) ==
  /\ pc = "register"
  /\ LET r == argparser_add_action_to_arg(parser, heap, name_or_flag, action)
     IN /\ parser' = r.parser
        /\ heap' = r.heap
        /\ last' = SetterCall("add_action", name_or_flag, r)
  /\ UNCHANGED << pc, scanVars, htVars, daVars >>

\* argparser_add_type_to_arg(parser, name_or_flag, type)
SetType(name_or_flag, type) ==
  /\ pc = "register"
  /\ LET r == argparser_add_type_to_arg(parser, heap, name_or_flag, type)
     IN /\ parser' = r.parser
        /\ heap' = r.heap
        /\ last' = SetterCall("add_type", name_or_flag, r)
  /\ UNCHANGED << pc, scanVars, htVars, daVars >>

\* argparser_add_required_to_arg(parser, name_or_flag, required)
SetRequired(name_or_flag, required) ==
  /\ pc = "register"
  /\ parser.req_opt_args_size < MaxRequired
  /\ LET r == argparser_add_required_to_arg(parser, heap, name_or_flag,
                                            required)
     IN /\ parser' = r.parser
        /\ heap' = r.heap
        /\ last' = SetterCall("add_required", name_or_flag, r)
  /\ UNCHANGED << pc, scanVars, htVars, daVars >>

\* argparser_add_help_to_arg(parser, name_or_flag, help) and the other
\* setters of PointerSetters
SetPointer(setter, name_or_flag, value) ==
  /\ pc = "register"
  /\ LET r == argparser_add_pointer_to_arg(parser, heap, name_or_flag, setter,
                                           value)
     IN /\ parser' = r.parser
        /\ heap' = r.heap
        /\ last' = SetterCall(setter, name_or_flag, r)
  /\ UNCHANGED << pc, scanVars, htVars, daVars >>

\* argparser_add_deprecated_to_arg(parser, name_or_flag, deprecated)
SetDeprecated(name_or_flag, deprecated) ==
  /\ pc = "register"
  /\ LET r == argparser_add_deprecated_to_arg(parser, heap, name_or_flag,
                                              deprecated)
     IN /\ parser' = r.parser
        /\ heap' = r.heap
        /\ last' = SetterCall("add_deprecated", name_or_flag, r)
  /\ UNCHANGED << pc, scanVars, htVars, daVars >>

\* the bytes that happen to follow an unterminated flags value
Tails == {<< >>, << "x" >>}

\* TRUE if some value of the flags table lacks its terminator
Unterminated(table) ==
  \E n \in DOMAIN table.entries :
    /\ table.entries[n].key # NULLSTR
    /\ ~table.entries[n].value.data.terminated

\* argparser_parse_args(parser, argc, argv), lines 1485-1504, from the call
\* up to the head of the for loop
EnterParse(args) ==
  /\ argv' = args
  /\ args_str' = concat_argv(Len(args), args)
  /\ flags' = separate_opt_args(parser)
  /\ pos_args' = separate_pos_args(parser)
  /\ tail' \in (IF Unterminated(flags') THEN Tails ELSE {<< >>})
  /\ i' = 0
  /\ current_pos_count' = 0
  /\ iterations' = 0
  /\ last' = NoCall
  /\ pc' = "for"
  /\ UNCHANGED << parser, heap, concat_str, output, result, reported,
                  htVars, daVars >>

\* the first call of argparser_parse_args, made once registration is over
ParseArgs(args) ==
  /\ pc = "register"
  /\ EnterParse(args)

\* a further call of argparser_parse_args on the same parser with the same
\* argv, made once the call before it has returned
ParseArgsAgain ==
  /\ pc = "done"
  /\ Len(reported) < MaxParses
  /\ EnterParse(argv)

\* where a call made by the scan leaves the program: r is what the call
\* returned, next the cursor the loop continues from
AfterCall(r, next, to) ==
  /\ parser' = r.parser
  /\ heap' = r.heap
  /\ i' = IF r.crashed THEN i ELSE next
  /\ pc' = IF r.crashed THEN "crashed" ELSE to

\* one iteration of the for loop (lines 1505-1582) other than the flag loop,
\* which is entered here and run by WhileStep
ForStep ==
  /\ pc = "for"
  /\ i < Len(args_str)
  /\ iterations' = (iterations + 1) % IterWrap
  /\ IF StartsWithAt(args_str, i, << "-", "-" >>)
     THEN LET name == get_arg_name(args_str, i).name
              name_length == Len(name)
          IN /\ IF /\ is_valid_arg_name(parser, name)
                   /\ i + name_length + 1 < Len(args_str)
                   /\ CharAt(args_str, i + name_length + 1) = "-"
                THEN /\ parser' = add_error_to_parser(parser, name, NULLSTR,
                                    "expected one argument", << >>)
                     /\ heap' = heap
                     /\ i' = i + name_length + 1
                     /\ pc' = "for"
                ELSE LET r == parse_optional_name(parser, heap, args_str, i)
                     IN AfterCall(r, r.index + 1, "for")
             /\ UNCHANGED << current_pos_count, concat_str >>
     ELSE IF CharAt(args_str, i) = "-"
     THEN /\ concat_str' = IF CharAt(args_str, i + 1) = NUL THEN << "-" >>
                           ELSE << "-", CharAt(args_str, i + 1) >>
          /\ pc' = "while"
          /\ UNCHANGED << parser, heap, i, current_pos_count >>
     ELSE LET r == parse_positional_argument(parser, heap, args_str, i,
                     current_pos_count + 1, pos_args)
          IN /\ AfterCall(r, r.index + 1, "for")
             /\ current_pos_count' = current_pos_count + 1
             /\ UNCHANGED concat_str
  /\ UNCHANGED << last, argv, args_str, flags, pos_args, tail, output,
                  result, reported, htVars, daVars >>

\* the four "expected one argument" guards of the flag loop, lines 1532-1567
FlagValueConflicts ==
  \/ i + 2 < Len(args_str) /\ StartsWithAt(args_str, i + 2, << "-", "-" >>)
  \/ i + 3 < Len(args_str) /\ StartsWithAt(args_str, i + 3, << "-", "-" >>)
  \/ /\ i + 2 < Len(args_str)
     /\ ~StartsWithAt(args_str, i + 2, << "-", "-" >>)
     /\ CharAt(args_str, i + 2) = "-"
     /\ is_valid_arg_flag(parser, flags, tail, CharAt(args_str, i + 1))
  \/ /\ i + 3 < Len(args_str)
     /\ ~StartsWithAt(args_str, i + 3, << "-", "-" >>)
     /\ CharAt(args_str, i + 3) = "-"
     /\ is_valid_arg_flag(parser, flags, tail, CharAt(args_str, i + 1))

\* the test of the flag loop and one iteration of it (lines 1531-1576); on
\* leaving the loop the for loop's i++ is taken as well
WhileStep ==
  /\ pc = "while"
  /\ iterations' = (iterations + 1) % IterWrap
  /\ IF ~(CharAt(args_str, i) # " " /\ i < Len(args_str))
     THEN /\ i' = i + 1
          /\ pc' = "for"
          /\ UNCHANGED << parser, heap >>
     ELSE IF FlagValueConflicts
     THEN /\ parser' = add_error_to_parser(parser, NULLSTR, concat_str,
                         "expected one argument", << >>)
          /\ heap' = heap
          /\ i' = i + 2
          /\ pc' = "for"
     ELSE LET r == parse_optional_flag(parser, heap, args_str,
                     IF CharAt(args_str, i) = "-" THEN i + 1 ELSE i,
                     flags, tail)
          IN AfterCall(r, r.index, "while")
  /\ UNCHANGED << last, argv, args_str, current_pos_count, flags, pos_args,
                  concat_str, tail, output, result, reported, htVars,
                  daVars >>

\* the end of argparser_parse_args, lines 1584-1604: print_errors and the
\* return of result, which no statement after line 1500 assigns
ParseEnd ==
  /\ pc = "for"
  /\ i >= Len(args_str)
  /\ output' = IF HasDiagnostics(parser, current_pos_count)
               THEN print_errors(parser, heap, pos_args, current_pos_count)
               ELSE << >>
  /\ parser' = IF HasDiagnostics(parser, current_pos_count)
               THEN AfterPrintErrors(parser, current_pos_count)
               ELSE parser
  /\ reported' = Append(reported, output')
  /\ result' = STATUS_SUCCESS
  /\ pc' = "done"
  /\ iterations' = (iterations + 1) % IterWrap
  /\ UNCHANGED << heap, last, argv, args_str, i, current_pos_count,
                  flags, pos_args, concat_str, tail, htVars, daVars >>

\* the process executing: at a loop head the loop's test is executed next,
\* whatever it leads to
Running ==
  /\ pc \in {"for", "while"}
  /\ iterations' = (iterations + 1) % IterWrap

(***************************************************************************)
(* Specifications.  Each draws the calls of a client from a small set.     *)
(***************************************************************************)
Init == HtInit /\ DaInit /\ ApInit

\* argv[0] followed by at most MaxArgc of the given tokens
Argvs(tokens) ==
  {<< PROGRAM >> \o s : s \in UNION {[1 .. n -> tokens] : n \in 0 .. MaxArgc}}

\* a client of the hash table alone
NextHT ==
  \/ \E k \in HtKeys, v \in HtValues : HtInsert(k, v) /\ UNCHANGED << apVars, daVars >>
  \/ \E k \in HtKeys, v \in HtValues :
       HtInsertAndReplace(k, v) /\ UNCHANGED << apVars, daVars >>
  \/ \E k \in HtKeys : HtDelete(k) /\ UNCHANGED << apVars, daVars >>
  \/ \E k \in HtKeys : HtSearch(k) /\ UNCHANGED << apVars, daVars >>

SpecHT == Init /\ [][NextHT]_vars

\* a client that fills the table past its first capacity, as the loop of
\* main() does: it inserts the first NumGrowKeys keys in the order of the
\* list, each once, and deletes and inserts again the first NumChurnKeys of
\* them at any time
NumGrowKeys == 7
NumChurnKeys == 1
ChurnKeys == {HtKeyList[n] : n \in 1 .. NumChurnKeys}

\* the n-th key is not stored, and the keys before it are stored or are
\* keys the client deletes
InOrder(n) ==
  /\ htStored[HtKeyList[n]] = 0
  /\ \A m \in 1 .. n - 1 : htStored[HtKeyList[m]] # 0 \/ m <= NumChurnKeys

NextGrow ==
  \/ \E n \in 1 .. NumGrowKeys :
       InOrder(n) /\ HtInsert(HtKeyList[n], 1) /\ UNCHANGED << apVars, daVars >>
  \/ \E k \in ChurnKeys : HtDelete(k) /\ UNCHANGED << apVars, daVars >>

SpecGrow == Init /\ [][NextGrow]_vars

\* a client that walks over the first capacity: it inserts the keys of
\* FillKeyList in the order of the list, deletes some of them again at any
\* time, and searches for a key it never inserts
FillKeyList ==
  << HtKeyList[1], HtKeyList[2], HtKeyList[3], HtKeyList[8], HtKeyList[6],
     HtKeyList[9], HtKeyList[5], HtKeyList[7] >>
FillDeleted == {HtKeyList[1], HtKeyList[3], HtKeyList[6]}
FillAbsent == HtKeyList[10]

\* the n-th key of the list is not stored, no key after it is stored, and
\* the keys before it are stored or are keys the client deletes
FillInOrder(n) ==
  /\ \A m \in n .. Len(FillKeyList) : htStored[FillKeyList[m]] = 0
  /\ \A m \in 1 .. n - 1 :
       htStored[FillKeyList[m]] # 0 \/ FillKeyList[m] \in FillDeleted

NextFill ==
  \/ \E n \in DOMAIN FillKeyList :
       /\ FillInOrder(n)
       /\ HtInsert(FillKeyList[n], 1)
       /\ UNCHANGED << apVars, daVars >>
  \/ \E k \in FillDeleted : HtDelete(k) /\ UNCHANGED << apVars, daVars >>
  \/ HtSearch(FillAbsent) /\ UNCHANGED << apVars, daVars >>

SpecFill == Init /\ [][NextFill]_vars

\* a client that registers and configures arguments of every shape
RegShorts ==
  {NULLSTR, SHORT_A, SHORT_B, << "a" >>, << "-", "1" >>, << "-", "a", "b" >>,
   << "-", "-" >>}
RegLongs ==
  {NULLSTR, LONG_N, << "-", "-", "m" >>, POS_P, << "-", "x" >>,
   << "-", "a" >>}
RegNames == {SHORT_A, LONG_N, POS_P}

NextReg ==
  \/ \E s \in RegShorts, l \in RegLongs : AddArgument(s, l)
  \/ \E n \in RegNames, a \in {AP_ARG_STORE, AP_ARG_STORE_TRUE} :
       SetAction(n, a)
  \/ \E n \in RegNames, ty \in {AP_ARG_INT, AP_ARG_STRING, AP_ARG_BOOL} :
       SetType(n, ty)
  \/ \E n \in RegNames, r \in BOOLEAN : SetRequired(n, r)

SpecReg == Init /\ [][NextReg]_vars

\* a client that registers an option and a positional and calls every setter,
\* with keys that resolve now or later and with the empty key
SetNames == {LONG_N, POS_P, << >>}
HELP_TEXT == << "h" >>

NextSet ==
  \/ AddArgument(SHORT_A, LONG_N)
  \/ AddArgument(NULLSTR, POS_P)
  \/ \E n \in SetNames : SetAction(n, AP_ARG_STORE_TRUE)
  \/ \E n \in SetNames, ty \in {AP_ARG_INT, AP_ARG_BOOL} : SetType(n, ty)
  \/ \E n \in SetNames, r \in BOOLEAN : SetRequired(n, r)
  \/ \E n \in SetNames : SetDeprecated(n, TRUE)
  \/ \E n \in SetNames : SetPointer("add_help", n, HELP_TEXT)

SpecSet == Init /\ [][NextSet]_vars

\* a client that fills an array and reads it
DaIndices == 0 .. MaxPushes

NextArray ==
  \/ \E d \in DataSizes : DaCreate(d) /\ UNCHANGED << htVars, apVars >>
  \/ DaAdd /\ UNCHANGED << htVars, apVars >>
  \/ \E n \in DaIndices : DaFind(n) /\ UNCHANGED << htVars, apVars >>
  \/ \E n \in DaIndices : DaFindRef(n) /\ UNCHANGED << htVars, apVars >>

SpecArray == Init /\ [][NextArray]_vars

\* a client that fills an array and removes from it
NextRemove ==
  \/ \E d \in DataSizes : DaCreate(d) /\ UNCHANGED << htVars, apVars >>
  \/ DaAdd /\ UNCHANGED << htVars, apVars >>
  \/ \E n \in DaIndices : DaRemove(n) /\ UNCHANGED << htVars, apVars >>

SpecRemove == Init /\ [][NextRemove]_vars

\* a client that fills an array and then iterates over it
NextIter ==
  \/ \E d \in DataSizes : DaCreate(d) /\ UNCHANGED << htVars, apVars >>
  \/ ~it.created /\ DaAdd /\ UNCHANGED << htVars, apVars >>
  \/ DaIterCreate /\ UNCHANGED << htVars, apVars >>
  \/ DaIterNext /\ UNCHANGED << htVars, apVars >>
  \/ DaIterReset /\ UNCHANGED << htVars, apVars >>

SpecIter == Init /\ [][NextIter]_vars

\* a client that pushes items one by one and several at once, removes the
\* first item and shrinks the array
AddManyLengths == {2, 9}

NextShrink ==
  \/ \E d \in {1, PointerSize} : DaCreate(d) /\ UNCHANGED << htVars, apVars >>
  \/ DaReturned /\ DaAdd /\ UNCHANGED << htVars, apVars >>
  \/ \E n \in AddManyLengths : DaAddMany(n) /\ UNCHANGED << htVars, apVars >>
  \/ DaReturned /\ DaRemove(0) /\ UNCHANGED << htVars, apVars >>
  \/ DaShrinkToFit /\ UNCHANGED << htVars, apVars >>

SpecShrink == Init /\ [][NextShrink]_vars

\* a client that registers positionals and flags, marks some required and
\* parses a command line
ParseCalls ==
  {<< NULLSTR, POS_P >>, << NULLSTR, POS_Q >>, << SHORT_A, NULLSTR >>,
   << SHORT_B, NULLSTR >>, << SHORT_A, LONG_N >>, << NULLSTR, LONG_N >>}
ParseTokens ==
  {<< "x" >>, << "y" >>, SHORT_A, SHORT_B, << "-", "a", "b" >>, LONG_N}

NextParse ==
  \/ \E c \in ParseCalls : AddArgument(c[1], c[2])
  \/ \E n \in {SHORT_A, LONG_N, POS_P}, r \in BOOLEAN : SetRequired(n, r)
  \/ \E args \in Argvs(ParseTokens) : ParseArgs(args)
  \/ ForStep
  \/ WhileStep
  \/ ParseEnd

SpecParse == Init /\ [][NextParse]_vars

\* a client that registers one long-name argument, gives it a type and
\* parses a command line with numerals
FORTY_TWO == << "4", "2" >>
MINUS_FIVE == << "-", "5" >>
OVERFLOWING ==
  << "9","9","9","9","9","9","9","9","9","9","9","9","9","9","9","9","9",
     "9","9","9" >>
IntTokens ==
  {LONG_N, FORTY_TWO, MINUS_FIVE, << "4", "x" >>, << "x" >>, OVERFLOWING}

NextInt ==
  \/ \E c \in {<< NULLSTR, LONG_N >>, << SHORT_A, LONG_N >>} :
       AddArgument(c[1], c[2])
  \/ \E ty \in {AP_ARG_INT, AP_ARG_STRING} : SetType(LONG_N, ty)
  \/ \E args \in Argvs(IntTokens) : ParseArgs(args)
  \/ ForStep
  \/ WhileStep
  \/ ParseEnd

SpecInt == Init /\ [][NextInt]_vars

\* a client that registers short flags and parses; the process keeps
\* running its loops as long as they have a next iteration
LiveTokens == {SHORT_A, << "-", "a", "b" >>, << "-", "a", "x" >>, << "x" >>}

NextLive ==
  \/ \E c \in {<< SHORT_A, NULLSTR >>, << SHORT_B, NULLSTR >>,
               << NULLSTR, POS_P >>} : AddArgument(c[1], c[2])
  \/ \E args \in Argvs(LiveTokens) : ParseArgs(args)
  \/ ForStep
  \/ WhileStep
  \/ ParseEnd

SpecLive == Init /\ [][NextLive]_vars /\ WF_iterations(Running)

\* a client that registers one Store argument, gives it a type and passes it
\* twice on the command line, each time with a value
SEVEN == << "7" >>
StoreNames == {LONG_N, SHORT_A}
StoreValues == {FORTY_TWO, SEVEN, MINUS_FIVE, << "x" >>}
StoreArgvs ==
  {<< PROGRAM, n, v, n, w >> : n \in StoreNames, v \in StoreValues,
                               w \in StoreValues}

NextStore ==
  \/ \E c \in {<< NULLSTR, LONG_N >>, << SHORT_A, NULLSTR >>} :
       AddArgument(c[1], c[2])
  \/ \E n \in StoreNames, ty \in {AP_ARG_INT, AP_ARG_STRING} : SetType(n, ty)
  \/ \E args \in StoreArgvs : ParseArgs(args)
  \/ ForStep
  \/ WhileStep
  \/ ParseEnd

SpecStore == Init /\ [][NextStore]_vars

\* a client that registers a flag, a long option and a positional, makes
\* the options StoreTrue or StoreFalse and parses a command line
SwitchTokens == {SHORT_A, LONG_N, << "x" >>}

NextSwitch ==
  \/ \E c \in {<< NULLSTR, LONG_N >>, << SHORT_A, NULLSTR >>,
                << NULLSTR, POS_P >>} : AddArgument(c[1], c[2])
  \/ \E n \in {SHORT_A, LONG_N},
        a \in {AP_ARG_STORE_TRUE, AP_ARG_STORE_FALSE} : SetAction(n, a)
  \/ \E args \in Argvs(SwitchTokens) : ParseArgs(args)
  \/ ForStep
  \/ WhileStep
  \/ ParseEnd

SpecSwitch == Init /\ [][NextSwitch]_vars

\* a client that registers arguments with a flag and a long name, one name
\* shorter than a pointer and one as long, and passes either key with a value
LONG_EIGHT == << "-", "-", "n", "n", "n", "n", "n", "n" >>
AliasCalls == {<< SHORT_A, LONG_N >>, << SHORT_B, LONG_EIGHT >>}
AliasArgvs ==
  {<< PROGRAM, k, v >> : k \in {SHORT_A, SHORT_B, LONG_N, LONG_EIGHT},
                        v \in {<< "x" >>, << "y" >>}}

NextAlias ==
  \/ \E c \in AliasCalls : AddArgument(c[1], c[2])
  \/ \E args \in AliasArgvs : ParseArgs(args)
  \/ ForStep
  \/ WhileStep
  \/ ParseEnd

SpecAlias == Init /\ [][NextAlias]_vars

\* a client that registers a flag and a positional and calls
\* argparser_parse_args twice with the same command line
AgainCalls == {<< SHORT_A, NULLSTR >>, << NULLSTR, POS_P >>}
AgainTokens == {<< "x" >>, << "y" >>, SHORT_A, SHORT_B}

NextAgain ==
  \/ \E c \in AgainCalls : AddArgument(c[1], c[2])
  \/ \E args \in Argvs(AgainTokens) : ParseArgs(args)
  \/ ParseArgsAgain
  \/ ForStep
  \/ WhileStep
  \/ ParseEnd

SpecAgain == Init /\ [][NextAgain]_vars

\* a client that registers positionals and passes tokens of which one is as
\* long as an unsigned short can count: its end is past position 65535.
\* The scan is followed as long as current_pos_count is at most MaxArgc.
LONG_TOKEN == [n \in 1 .. UShortWidth - 1 |-> "x"]
LongArgvs ==
  Argvs({<< "x" >>, << "y" >>}) \cup {<< PROGRAM, << "y" >>, LONG_TOKEN >>}

NextLong ==
  \/ \E c \in {<< NULLSTR, POS_P >>, << NULLSTR, POS_Q >>} :
       AddArgument(c[1], c[2])
  \/ \E args \in LongArgvs : ParseArgs(args)
  \/ current_pos_count <= MaxArgc /\ ForStep
  \/ ParseEnd

SpecLong == Init /\ [][NextLong]_vars

(***************************************************************************)
(* Properties of the hash table, checked under SpecHT.  htStored is what   *)
(* the calls that returned success have stored: 0 for a key that is not    *)
(* stored, else the value of the last successful insert or replace.        *)
(***************************************************************************)

\* C3: after any sequence of insert / insert_and_replace / delete, search(k)
\* succeeds with the most recently stored value for every key k that was
\* inserted and not deleted since; no live key answers FAILURE or IS_EMPTY.
C3_LiveKeysAreFound ==
  \A k \in HtKeys :
    htStored[k] # 0 => Found(k) /\ FoundValue(k) = Ptr(htStored[k])

\* C4: delete(k) of a present key succeeds, a following search(k) fails and
\* the size is one less than before; delete(k) of an absent key fails and
\* leaves the size unchanged.
C4_DeleteContract ==
  htLast.op = "delete" /\ htReturns =>
    IF htLast.storedBefore # 0
    THEN /\ htLast.result = STATUS_SUCCESS
         /\ ~Found(htLast.key)
         /\ hash_table_get_size(ht) = htLast.sizeBefore - 1
    ELSE /\ htLast.result # STATUS_SUCCESS
         /\ hash_table_get_size(ht) = htLast.sizeBefore

(***************************************************************************)
(* Properties of the scan.                                                 *)
(***************************************************************************)

\* C1: for every registry and every finite argv, argparser_parse_args
\* reaches the end of the scan after finitely many loop iterations, also
\* when a registered short flag is directly followed by another one ("-ab").
\* Checked under SpecLive, where the loops keep running.  A run that the
\* process ends by a NULL dereference is not held against the claim here:
\* only a scan that iterates forever violates the formula.
C1_ScanTerminates ==
  (pc \in {"for", "while"}) ~> (pc \in {"done", "crashed"})

\* the tokens of the command line after argv[0]
Tokens == Tail(argv)

\* the indices of the argument records that hold positionals, in the order
\* of their registration
RECURSIVE PositionalRecords(_, _)
PositionalRecords(h, n) ==
  IF n > Len(h) THEN << >>
  ELSE (IF h[n].short_name = NULLSTR /\ h[n].long_name[1] # "-"
        THEN << n >> ELSE << >>) \o PositionalRecords(h, n + 1)

\* sub occurs in s
IsInfix(sub, s) ==
  \E k \in 0 .. Len(s) - Len(sub) : SubSeq(s, k + 1, k + Len(sub)) = sub

\* some argument marked required has no bound value
MissingRequired(n) == heap[n].required /\ heap[n].value = NULLPTR

\* the diagnostics of the claims: a recorded parse error, an unrecognized
\* token, a missing positional, a missing required optional
DiagnosticsExist ==
  \/ Len(parser.errors.items) > 0
  \/ parser.unrecognized_args # NULLSTR
  \/ current_pos_count < Len(PositionalRecords(heap, 1))
  \/ \E n \in 1 .. Len(heap) : MissingRequired(n)

\* C2: the parse call returns non-zero if and only if at least one
\* diagnostic exists at the end of the scan, and 0 exactly when none does.
C2_NonZeroIffDiagnostics ==
  pc = "done" => (result # 0 <=> DiagnosticsExist)

\* C10: at the end of every parse each argument marked required whose value
\* is still absent is reported as missing under its short/long alias pair,
\* whatever other tokens the command line held.
C10_MissingRequiredReported ==
  pc = "done" =>
    \A n \in 1 .. Len(heap) :
      MissingRequired(n) =>
        \E k \in 1 .. Len(output) :
          /\ output[k].line = REQUIRED_PREFIX
          /\ IsInfix(AliasText(heap[n]), output[k].text)

\* a command line of positional tokens only, one for each registered
\* positional, for a registry whose ledger of required arguments is empty
PositionalCommandLine ==
  /\ Len(Tokens) = Len(PositionalRecords(heap, 1))
  /\ \A n \in 1 .. Len(Tokens) : Tokens[n][1] # "-"
  /\ parser.req_opt_args = NULLSTR

\* C8: positional tokens bind by registration order: with positionals
\* p1..pn registered in that order and the positional tokens t1..tn, pi is
\* bound to the string ti for every i and no diagnostic is recorded.
C8_PositionalsBindInOrder ==
  pc = "done" /\ PositionalCommandLine =>
    /\ \A n \in 1 .. Len(Tokens) :
         heap[PositionalRecords(heap, 1)[n]].value = StringValue(Tokens[n])
    /\ ~DiagnosticsExist
    /\ output = << >>

\* two positionals, q registered before p, bound to two different tokens
C8_Witness ==
  /\ pc = "done"
  /\ PositionalCommandLine
  /\ Len(heap) = 2
  /\ heap[1].long_name = POS_Q /\ heap[1].value = StringValue(<< "x" >>)
  /\ heap[2].long_name = POS_P /\ heap[2].value = StringValue(<< "y" >>)

\* v is an optional sign followed by one or more decimal digits
IsIntLiteral(v) ==
  LET first == IF v[1] \in {"-", "+"} THEN 2 ELSE 1 IN
  /\ first <= Len(v)
  /\ \A n \in first .. Len(v) : isdigit(v[n])

\* the digits of an integer literal without sign and leading zeros
LiteralDigits(v) ==
  StripZeros(IF v[1] \in {"-", "+"} THEN Tail(v) ELSE v)

\* the literal lies within LONG_MIN .. LONG_MAX
InLongRange(v) ==
  ~DigitsGreater(LiteralDigits(v),
                 IF v[1] = "-" THEN LONG_MIN_DIGITS ELSE LONG_MAX_DIGITS)

\* an error with the given message is recorded for the argument --n
Recorded(message) ==
  \E k \in 1 .. Len(parser.errors.items) :
    /\ parser.errors.items[k].message = message
    /\ LONG_N \in {parser.errors.items[k].short_name,
                   parser.errors.items[k].long_name}

\* the command line is [--n, v] and --n is registered with action Store and
\* type Int
IntCommandLine ==
  /\ Len(Tokens) = 2
  /\ Tokens[1] = LONG_N
  /\ ArgAt(parser, LONG_N) # 0
  /\ heap[ArgAt(parser, LONG_N)].action = AP_ARG_STORE
  /\ heap[ArgAt(parser, LONG_N)].type = AP_ARG_INT

\* C9: for a long-name argument with action Store and type Int, the tokens
\* [name, v] bind the integer value of v without a diagnostic when v is a
\* base-10 integer literal in range, positive or negative; record "invalid
\* int value" when v is not an integer literal; record "numerical result is
\* out of range" when v overflows.  Values shaped like an option (a leading
\* '-' that starts no integer literal) are left out of the second case.
C9_StoreIntParses ==
  pc \in {"done", "crashed"} /\ IntCommandLine =>
    LET v == Tokens[2]
        value == heap[ArgAt(parser, LONG_N)].value
    IN IF IsIntLiteral(v) /\ InLongRange(v)
       THEN /\ pc = "done"
            /\ value = LongValue(v[1] = "-" /\ LiteralDigits(v) # << "0" >>,
                                 LiteralDigits(v))
            /\ ~DiagnosticsExist
       ELSE IF IsIntLiteral(v)
       THEN Recorded("numerical result is out of range")
       ELSE v[1] # "-" => Recorded("invalid int value")

(***************************************************************************)
(* Properties of the registration, checked under SpecReg.                  *)
(***************************************************************************)

\* the argument records registered with a short flag and a long name
AliasedRecords ==
  {n \in 1 .. Len(heap) :
     heap[n].short_name # NULLSTR /\ heap[n].long_name # NULLSTR}

C6_DuplicateNamesRejected ==
  /\ last.op = "add_argument"
  /\ last.kind \in {1, 2, 3}
  /\ {last.short_name, last.long_name} \cap last.known # {}
  => last.result = STATUS_ALREADY_EXISTS

\* the decision table of C7; the outcomes carry the numbers of
\* determine_argument: -1 MissingName, 1 Positional, 3 OptionalByLong,
\* -4 BadLongNameForPositional, -2 BadShortName, 2 OptionalByShort,
\* -5 MixedPositionalOptional
DecisionTable(short_name, long_name) ==
  LET double == long_name # NULLSTR /\ Len(long_name) >= 2
                  /\ long_name[1] = "-" /\ long_name[2] = "-"
      single == long_name # NULLSTR /\ Len(long_name) >= 1
                  /\ long_name[1] = "-" /\ ~double
      valid_short == Len(short_name) = 2 /\ short_name[1] = "-"
                       /\ isalpha(short_name[2])
  IN IF short_name = NULLSTR
     THEN IF long_name = NULLSTR THEN -1
          ELSE IF double THEN 3
          ELSE IF single THEN -4
          ELSE 1
     ELSE IF ~valid_short THEN -2
     ELSE IF long_name = NULLSTR THEN 2
     ELSE IF double THEN 3
     ELSE -5

\* C7: argparser_add_argument classifies every (short, long) pair by the
\* decision table and leaves no pair unclassified.
C7_ClassifiedByDecisionTable ==
  last.op = "add_argument" =>
    last.kind = DecisionTable(last.short_name, last.long_name)

(***************************************************************************)
(* Properties of the required-optional ledger.                             *)
(***************************************************************************)

\* the record a setter call with the given name resolves to in the parser as
\* it is after the call, 0 for none
TargetOf(name_or_flag) ==
  LET g == GET_ARG_FROM_PARSER(parser, name_or_flag) IN
  IF g.result = STATUS_SUCCESS THEN g.arg ELSE 0

\* C11: an argument enters the required-optional ledger only through
\* setRequired(name, true): a successful setRequired call that leaves its
\* argument not required (a call with false) leaves the ledger and its
\* entry count as they were.
C11_FalseLeavesLedger ==
  [][(/\ last'.op = "add_required"
      /\ last'.result = STATUS_SUCCESS
      /\ pc' = "register"
      /\ ~heap'[TargetOf(last'.short_name)].required)
     => /\ parser'.req_opt_args = parser.req_opt_args
        /\ parser'.req_opt_args_size = parser.req_opt_args_size]_vars

(***************************************************************************)
(* Properties of the guards of the scan.                                   *)
(***************************************************************************)

\* the errors the flag guards record: "expected one argument" for a token
\* "-x" given in the place of the long name (an error from validate_argument
\* carries the names of a registered record, never a lone single-dash token)
GuardErrors ==
  {n \in 1 .. Len(parser.errors.items) :
     LET e == parser.errors.items[n] IN
     /\ e.message = "expected one argument"
     /\ e.short_name = NULLSTR
     /\ e.long_name # NULLSTR
     /\ Len(e.long_name) <= 2
     /\ CharAt(e.long_name, 0) = "-"
     /\ CharAt(e.long_name, 1) # "-"}

\* C12: the ambiguity guard records "expected one argument" for a short-flag
\* token only when the flag is registered and the action of its record takes
\* a value; a flag that is not registered goes on to the lookup and is
\* reported as unrecognized.
C12_GuardOnlyForRegisteredFlags ==
  pc = "done" =>
    \A n \in GuardErrors :
      \E m \in 1 .. Len(heap) :
        /\ heap[m].short_name = parser.errors.items[n].long_name
        /\ heap[m].action = AP_ARG_STORE

\* a token of the form "--name" or "-x"
IsOptionToken(token) ==
  \/ Len(token) > 2 /\ token[1] = "-" /\ token[2] = "-"
  \/ Len(token) = 2 /\ token[1] = "-" /\ token[2] # "-"

\* a command line all of whose tokens are option tokens that are not
\* registered: no token is the value of a registered argument
UnregisteredCommandLine ==
  /\ Len(Tokens) > 0
  /\ \A n \in 1 .. Len(Tokens) :
       IsOptionToken(Tokens[n]) /\ Tokens[n] \notin RegisteredNames(heap)

\* some recorded error says "expected one argument" for the token
ExpectedOneArgumentFor(token) ==
  \E n \in 1 .. Len(parser.errors.items) :
    /\ parser.errors.items[n].message = "expected one argument"
    /\ token \in {parser.errors.items[n].short_name,
                  parser.errors.items[n].long_name}

\* C13: every "--name" and "-x" token that is not registered is recorded as
\* unrecognized with its own text, wherever it stands (the last token
\* included), and no "expected one argument" error is recorded for it.
C13_UnregisteredIsUnrecognized ==
  pc = "done" /\ UnregisteredCommandLine =>
    \A n \in 1 .. Len(Tokens) :
      /\ parser.unrecognized_args # NULLSTR
      /\ IsInfix(Tokens[n] \o << " " >>, parser.unrecognized_args)
      /\ ~ExpectedOneArgumentFor(Tokens[n])

(***************************************************************************)
(* Properties of the report of missing positionals.                        *)
(***************************************************************************)

\* the words of a text: its maximal runs of characters other than a space
RECURSIVE Words(_)
Words(text) ==
  IF Len(text) = 0 THEN << >>
  ELSE IF text[1] = " " THEN Words(Tail(text))
  ELSE LET end == RunEnd(text, 0) IN
       << SubSeq(text, 1, end) >> \o Words(Suffix(text, end))

\* the words of the required lines of the output, in the order printed
RECURSIVE RequiredWords(_)
RequiredWords(lines) ==
  IF Len(lines) = 0 THEN << >>
  ELSE (IF lines[1].line = REQUIRED_PREFIX THEN Words(lines[1].text)
        ELSE << >>) \o RequiredWords(Tail(lines))

\* the words of a sequence that do not start with a dash: the positionals
\* a required line names
RECURSIVE PositionalWords(_)
PositionalWords(words) ==
  IF Len(words) = 0 THEN << >>
  ELSE (IF words[1][1] # "-" THEN << words[1] >> ELSE << >>)
         \o PositionalWords(Tail(words))

\* the names of the registered positionals from index n (0-based) on, in
\* registration order
UnfilledPositionals(n) ==
  LET records == PositionalRecords(heap, 1) IN
  IF n >= Len(records) THEN << >>
  ELSE [k \in 1 .. Len(records) - n |-> heap[records[k + n]].long_name]

\* C14: when fewer positional tokens are seen than positionals are
\* registered, the report names exactly the registered positionals at the
\* indices current_pos_count .. n - 1, each once, in registration order;
\* when current_pos_count is at least n no positional is reported missing.
C14_UnfilledPositionalsNamedOnce ==
  pc = "done" =>
    PositionalWords(RequiredWords(output))
      = UnfilledPositionals(current_pos_count)

(***************************************************************************)
(* Properties of the Store action, checked under SpecStore.                *)
(***************************************************************************)

\* v converts to the type: every string does, and an integer literal in
\* range converts to AP_ARG_INT
Convertible(type, v) ==
  type = AP_ARG_STRING \/ (IsIntLiteral(v) /\ InLongRange(v))

\* what a converted v is stored as
Converted(type, v) ==
  IF type = AP_ARG_STRING THEN StringValue(v)
  ELSE LongValue(v[1] = "-" /\ LiteralDigits(v) # << "0" >>, LiteralDigits(v))

\* the command line is [name, v, name, w] for a registered Store argument
\* and two values that convert to its type
RepeatedStoreCommandLine ==
  /\ Len(Tokens) = 4
  /\ Tokens[1] = Tokens[3]
  /\ ArgAt(parser, Tokens[1]) # 0
  /\ LET arg == heap[ArgAt(parser, Tokens[1])] IN
     /\ arg.action = AP_ARG_STORE
     /\ Convertible(arg.type, Tokens[2])
     /\ Convertible(arg.type, Tokens[4])

\* C15: Store replaces the binding: when the same Store argument occurs
\* twice with convertible values, its value after the parse is the converted
\* value of the last occurrence.
C15_StoreKeepsLast ==
  pc \in {"done", "crashed"} /\ RepeatedStoreCommandLine =>
    /\ pc = "done"
    /\ heap[ArgAt(parser, Tokens[1])].value
         = Converted(heap[ArgAt(parser, Tokens[1])].type, Tokens[4])

(***************************************************************************)
(* Properties of the growth of the hash table, checked under SpecGrow.     *)
(***************************************************************************)

\* the slots of a table that hold a key, the key-value pairs they hold and
\* the slots that hold the tombstone mark
OccupiedSlots(t) == {j \in DOMAIN t.entries : t.entries[j].key # NULLSTR}
Pairs(t) == {<< t.entries[j].key, t.entries[j].value >> : j \in OccupiedSlots(t)}
TombstoneSlots(t) ==
  {j \in DOMAIN t.entries :
     t.entries[j].key = NULLSTR /\ t.entries[j].value = TOMBSTONE}

\* new holds exactly the key-value pairs of old, each key in one slot where
\* the probe for it ends, no tombstone, and counts its keys in size
ResizeKeeps(old, new) ==
  /\ Pairs(new) = Pairs(old)
  /\ Cardinality(OccupiedSlots(new)) = Cardinality(LiveKeys(old))
  /\ \A j \in OccupiedSlots(new) :
       find_entry(new.entries, new.capacity, new.entries[j].key) = j
  /\ TombstoneSlots(new) = {}
  /\ new.size = Cardinality(LiveKeys(old))

\* C16: a resize keeps exactly the live key-value pairs: every key present
\* before is present once after it with the same value, no key is added, no
\* tombstone remains and size equals the number of live keys.  Stated for
\* every step in which the capacity changes: the table resize makes of the
\* table before the step, and the pairs still held after the step.
C16_ResizeKeepsPairs ==
  [][ht'.capacity # ht.capacity =>
       /\ ResizeKeeps(ht, resize(ht, ht'.capacity))
       /\ Pairs(ht) \subseteq Pairs(ht')
       /\ TombstoneSlots(ht') = {}]_vars

\* a resize has just run on a table whose size was one short of its keys:
\* the insert found size 5 and left 7 keys counted in 16 slots
C16_Witness ==
  /\ htLast.op = "insert"
  /\ htLast.sizeBefore = 5
  /\ ht.capacity = 2 * HASH_TABLE_INITIAL_SIZE
  /\ hash_table_get_size(ht) = 7
  /\ Cardinality(LiveKeys(ht)) = 7

\* C17: in every state reachable by insert / insert_and_replace / delete the
\* number of live keys divided by the capacity does not exceed 0.75.
C17_LoadFactorBounded ==
  Cardinality(LiveKeys(ht)) * LoadDen <= ht.capacity * LoadNum

\* n is a power of two
RECURSIVE IsPowerOfTwo(_)
IsPowerOfTwo(n) ==
  IF n <= 1 THEN n = 1
  ELSE (n % 2) = 0 /\ IsPowerOfTwo(n \div 2)

\* C20: the capacity is a power of two and at least 8 in every reachable
\* state, after creation and after the resizes the calls trigger.
C20_CapacityPowerOfTwo ==
  IsPowerOfTwo(ht.capacity) /\ ht.capacity >= HASH_TABLE_INITIAL_SIZE

\* the table has grown once
C20_Witness ==
  /\ ht.capacity = 2 * HASH_TABLE_INITIAL_SIZE
  /\ htLast.op = "insert"
  /\ htLast.result = STATUS_SUCCESS
  /\ Cardinality(LiveKeys(ht)) >= 6

(***************************************************************************)
(* Properties of insert and insert_and_replace, checked under SpecHT: each *)
(* is stated for the step a call takes, from the table before the call to  *)
(* the table after it.                                                     *)
(***************************************************************************)

\* what search(k) yields on table t: the stored value, NULL when not found
ValueIn(t, k) ==
  LET r == hash_table_search(t, k, NULLPTR) IN
  IF r.returns /\ r.result = STATUS_SUCCESS THEN r.value ELSE NULLPTR

\* C18: insert(k, v) with k already present fails with the status 6
\* (already exists), distinct from the generic failure status, and leaves
\* the value stored under k, every other key's value and the size unchanged.
C18_InsertOfPresentKey ==
  [][htLast'.op = "insert" /\ htStored[htLast'.key] # 0 =>
       /\ htReturns'
       /\ htLast'.result = STATUS_ALREADY_EXISTS
       /\ \A k \in HtKeys : ValueIn(ht', k) = ValueIn(ht, k)
       /\ hash_table_get_size(ht') = hash_table_get_size(ht)]_vars

\* C19: insert_and_replace(k, v) is an upsert: afterwards search(k) yields
\* v; the size grows by exactly one if k was absent, whether the slot used
\* was empty or a tombstone, and is unchanged if k was present; the values of
\* all other keys are unchanged.
C19_InsertAndReplaceIsUpsert ==
  [][htLast'.op = "insert_and_replace" =>
       /\ htReturns'
       /\ htLast'.result = STATUS_SUCCESS
       /\ ValueIn(ht', htLast'.key) = htLast'.value
       /\ hash_table_get_size(ht')
            = hash_table_get_size(ht)
                + (IF htStored[htLast'.key] = 0 THEN 1 ELSE 0)
       /\ \A k \in HtKeys \ {htLast'.key} : ValueIn(ht', k) = ValueIn(ht, k)]_vars


(***************************************************************************)
(* C21: a registerArgument call that returns an error (bad name shape,     *)
(* mixed shapes, missing names, duplicate key) leaves the registry as it   *)
(* was: the registered keys and the records they resolve to, the           *)
(* positional list and its count, the optional list and the required       *)
(* ledger.                                                                 *)
(***************************************************************************)
\* the registry as a client can observe it
Registry(p, h) ==
  [keys |-> LiveKeys(p.arguments),
   specs |-> [k \in LiveKeys(p.arguments) |->
                h[hash_table_search(p.arguments, k, NULLPTR).value.data]],
   positional_args |-> p.positional_args, pos_args_size |-> p.pos_args_size,
   optional_args |-> p.optional_args, req_opt_args |-> p.req_opt_args,
   req_opt_args_size |-> p.req_opt_args_size]

C21_FailedRegistrationChangesNothing ==
  [][(last'.op = "add_argument" /\ last'.result # STATUS_SUCCESS)
       => Registry(parser', heap') = Registry(parser, heap)]_vars

\* a duplicate rejected by a registry that holds a positional and its ledger
\* entry
C21_Witness ==
  /\ last.op = "add_argument"
  /\ last.result = STATUS_ALREADY_EXISTS
  /\ Len(heap) = 1
  /\ parser.pos_args_size = 1
  /\ parser.req_opt_args_size = 1


(***************************************************************************)
(* C22: a setter that succeeds changes only the field it names, on the one *)
(* record its key resolves to (setRequired the ledger as well); a setter   *)
(* whose lookup fails (empty key, key not found, empty registry) changes   *)
(* no record and no ledger entry.                                          *)
(***************************************************************************)
\* the field each setter names
SetterField ==
  [s \in DOMAIN PointerSetters \cup
         {"add_action", "add_type", "add_required", "add_deprecated"} |->
     IF s \in DOMAIN PointerSetters THEN PointerSetters[s]
     ELSE IF s = "add_action" THEN "action"
     ELSE IF s = "add_type" THEN "type"
     ELSE IF s = "add_required" THEN "required"
     ELSE "deprecated"]

\* the fields of the records that differ between the heaps h and g
ChangedFields(h, g) ==
  {<< m, f >> \in (1 .. Len(h)) \X DOMAIN arg_create(NULLSTR, NULLSTR) :
     g[m][f] # h[m][f]}

LedgerOf(p) == << p.req_opt_args, p.req_opt_args_size >>

C22_SettersChangeOneField ==
  [][last'.op \in DOMAIN SetterField
       => /\ Len(heap') = Len(heap)
          /\ [parser' EXCEPT !.req_opt_args = NULLSTR,
                             !.req_opt_args_size = 0]
               = [parser EXCEPT !.req_opt_args = NULLSTR,
                                !.req_opt_args_size = 0]
          /\ IF TargetOf(last'.short_name) # 0
             THEN /\ ChangedFields(heap, heap')
                       \subseteq {<< TargetOf(last'.short_name),
                                     SetterField[last'.op] >>}
                  /\ (last'.op # "add_required"
                        => LedgerOf(parser') = LedgerOf(parser))
             ELSE /\ last'.result # STATUS_SUCCESS
                  /\ heap' = heap
                  /\ LedgerOf(parser') = LedgerOf(parser)]_vars

\* a setter has just written its field on the second of two records, the
\* first of which was configured before
C22_Witness ==
  /\ last.op = "add_action"
  /\ last.result = STATUS_SUCCESS
  /\ Len(heap) = 2
  /\ TargetOf(last.short_name) = 2
  /\ heap[2].action = AP_ARG_STORE_TRUE
  /\ heap[2].type = AP_ARG_INT
  /\ heap[1].help = HELP_TEXT
  /\ heap[1].action = AP_ARG_STORE


(***************************************************************************)
(* Properties of the array, checked under SpecArray, SpecRemove and        *)
(* SpecIter.  daPushed.items is what the calls so far leave in the array.  *)
(***************************************************************************)
\* C23: after N items were pushed onto an array of any element size, across
\* any number of doublings of the capacity, find and find_ref of every
\* index below N succeed and yield the item pushed at that index.
C23_FindYieldsPushed ==
  (daLast.op \in {"find", "find_ref"} /\ daLast.index < Len(daPushed.items))
    => /\ daLast.result = STATUS_SUCCESS
       /\ daLast.item = daPushed.items[daLast.index + 1]


\* the elements of the array a, read where dynamic_array_add wrote them
Elements(a) ==
  [n \in 1 .. a.size |-> Read(a.items, (n - 1) * a.data_size, a.data_size, 0)]

\* C24: remove(i) on an array holding e0 .. e(n-1), i < n, leaves exactly
\* e0 .. e(i-1), e(i+1) .. e(n-1) and size n - 1, for every element size and
\* every valid i (i = n - 1 on a full array too), and touches no storage
\* beyond the capacity of the array.
C24_RemoveClosesTheGap ==
  (daLast.op = "remove" /\ daLast.result = STATUS_SUCCESS)
    => /\ array.size = Len(daPushed.items)
       /\ Elements(array) = daPushed.items
       /\ ~daLast.oob


\* C25: an iterator over an array of N elements yields, by successive calls
\* of next, the elements 0 .. N-1 in order, for any element size, and then
\* reports the end; after reset it yields the same sequence again.
C25_IteratorYieldsInOrder ==
  [][daLast'.op = "iter_next"
       => IF it.index < Len(daPushed.items)
          THEN /\ daLast'.result = STATUS_SUCCESS
               /\ daLast'.item = daPushed.items[it.index + 1]
               /\ it'.index = it.index + 1
          ELSE /\ daLast'.result \in {STATUS_OUT_OF_BOUNDS, STATUS_IS_EMPTY}
               /\ it'.index = it.index]_vars


(***************************************************************************)
(* Properties of the StoreTrue and StoreFalse actions, checked under       *)
(* SpecSwitch.                                                             *)
(***************************************************************************)
\* what a bound boolean is stored as
BoolValue(b) == [tag |-> "bool", data |-> b]

\* the token is the key of a StoreTrue or StoreFalse argument
IsSwitch(token) ==
  /\ ArgAt(parser, token) # 0
  /\ heap[ArgAt(parser, token)].action
       \in {AP_ARG_STORE_TRUE, AP_ARG_STORE_FALSE}

\* every switch on the command line is bound to its boolean
SwitchesBound ==
  \A n \in 1 .. Len(Tokens) :
    IsSwitch(Tokens[n])
      => heap[ArgAt(parser, Tokens[n])].value
           = BoolValue(heap[ArgAt(parser, Tokens[n])].action
                         = AP_ARG_STORE_TRUE)

\* the token after a switch is taken on its own: a word goes to the first
\* positional, another switch is a switch
FollowerOnItsOwn ==
  \A n \in 1 .. Len(Tokens) - 1 :
    (IsSwitch(Tokens[n]) /\ ~IsOptionToken(Tokens[n + 1])
       /\ ArgAt(parser, POS_P) # 0)
      => heap[ArgAt(parser, POS_P)].value = StringValue(Tokens[n + 1])

\* C26: when an argument whose action is StoreTrue (StoreFalse) occurs on
\* the command line, its value after the parse is the boolean true (false),
\* and the token after it is not consumed as its value but classified on its
\* own.
C26_SwitchBindsBoolean ==
  (pc \in {"done", "crashed"} /\ \E n \in 1 .. Len(Tokens) : IsSwitch(Tokens[n]))
    => pc = "done" /\ SwitchesBound /\ FollowerOnItsOwn


(***************************************************************************)
(* C27: rendering the diagnostics leaves the error list, the unrecognized  *)
(* tokens and the required ledger as they were, and rendering the state it *)
(* leaves once more gives the same text.  Checked under SpecParse.         *)
(***************************************************************************)
C27_RenderingChangesNothing ==
  [][(pc = "for" /\ pc' = "done" /\ HasDiagnostics(parser, current_pos_count))
       => /\ parser'.errors = parser.errors
          /\ parser'.unrecognized_args = parser.unrecognized_args
          /\ parser'.req_opt_args = parser.req_opt_args
          /\ parser'.req_opt_args_size = parser.req_opt_args_size
          /\ output' = print_errors(parser, heap, pos_args, current_pos_count)
          /\ print_errors(parser', heap', pos_args', current_pos_count')
               = output']_vars

\* diagnostics of every kind were rendered: an error, an unrecognized token
\* and a required line built from the ledger
C27_Witness ==
  /\ pc = "done"
  /\ Len(output) = 3
  /\ parser.errors.created /\ Len(parser.errors.items) = 1
  /\ parser.unrecognized_args # NULLSTR
  /\ parser.req_opt_args # NULLSTR


(***************************************************************************)
(* Properties of the tombstones, checked under SpecHT.                     *)
(***************************************************************************)
\* no key of the table t is held by two slots
OneSlotPerKey(t) ==
  \A j, m \in OccupiedSlots(t) : t.entries[j].key = t.entries[m].key => j = m

\* the delete of a key that search finds leaves every other key that search
\* finds found, with its value
DeleteKeepsOthers ==
  (htLast'.op = "delete" /\ ValueIn(ht, htLast'.key) # NULLPTR)
    => /\ htLast'.result = STATUS_SUCCESS
       /\ \A k \in HtKeys \ {htLast'.key} :
            ValueIn(ht, k) # NULLPTR => ValueIn(ht', k) = ValueIn(ht, k)

\* C28: tombstones keep the probe chains whole: for two live keys k1 and k2,
\* colliding or not, search(k2) after delete(k1) still returns the value of
\* k2, and a later insert(k1) leaves exactly one entry for k1 and no second
\* entry for any key.
C28_TombstonesKeepChains ==
  [][/\ DeleteKeepsOthers
     /\ (htLast'.op = "insert" /\ htReturns' /\ htLast'.result = STATUS_SUCCESS)
          => (OneSlotPerKey(ht') /\ htLast'.key \in LiveKeys(ht'))]_vars


(***************************************************************************)
(* Properties of the count of positionals, checked under SpecParse.        *)
(***************************************************************************)
\* the token is a flag or a long name under which an argument is registered
Resolves(token) ==
  /\ IsOptionToken(token)
  /\ \E m \in 1 .. Len(heap) :
       token \in {heap[m].short_name, heap[m].long_name}

\* the n-th token is consumed as the value of the option before it
RECURSIVE ConsumedAsValue(_)
ConsumedAsValue(n) ==
  n > 1 /\ Resolves(Tokens[n - 1]) /\ ~ConsumedAsValue(n - 1)

\* the tokens that are positional: not starting with '-' and not consumed as
\* the value of an option
PositionalTokens ==
  {n \in 1 .. Len(Tokens) : Tokens[n][1] # "-" /\ ~ConsumedAsValue(n)}

\* a command line of words, flags and long names
PlainCommandLine ==
  \A n \in 1 .. Len(Tokens) : Tokens[n][1] # "-" \/ IsOptionToken(Tokens[n])

\* C29: the count of positionals goes up exactly once per positional token;
\* in particular, after "expected one argument" for -a in "-a -b" or
\* "-a --name", the token after -a is still a flag or long name: it is not
\* counted as a positional and not bound as the value of one.
C29_OneCountPerPositionalToken ==
  (pc \in {"done", "crashed"} /\ PlainCommandLine)
    => /\ current_pos_count = Cardinality(PositionalTokens)
       /\ \A m \in 1 .. Len(heap) :
            (heap[m].short_name = NULLSTR /\ heap[m].long_name[1] # "-"
               /\ heap[m].value # NULLPTR)
              => \E n \in PositionalTokens :
                   heap[m].value = StringValue(Tokens[n])


(***************************************************************************)
(* Properties of the two keys of an argument, checked under SpecAlias.     *)
(***************************************************************************)
\* the records registered with the token as flag or as long name
RecordsOf(token) ==
  {m \in 1 .. Len(heap) : token \in {heap[m].short_name, heap[m].long_name}}

\* C30: for every argument registered with a flag and a long name, of any
\* length, the tokens [-x, v] resolve to the record of the argument and bind
\* v exactly as [--name, v] does.
C30_FlagBindsAsName ==
  (pc \in {"done", "crashed"} /\ Len(Tokens) = 2)
    => \A m \in RecordsOf(Tokens[1]) :
         /\ pc = "done"
         /\ heap[m].value = StringValue(Tokens[2])
         /\ output = << >>

(***************************************************************************)
(* Properties of repeated parse calls, checked under SpecAgain.            *)
(***************************************************************************)
\* C31: two consecutive calls of argparser_parse_args on the same parser
\* with the same tokens report the same diagnostics: what the first call
\* recorded is not reported again, doubled, by the second.
C31_SecondParseReportsTheSame ==
  Len(reported) = 2 => reported[2] = reported[1]

(***************************************************************************)
(* The frame of a parse call, checked under SpecParse.                     *)
(***************************************************************************)
\* the argument records without their bound values
Configuration(h) == [m \in 1 .. Len(h) |-> [h[m] EXCEPT !.value = NULLPTR]]

\* what registration has built: the key table, the records' configuration,
\* the positional list and its count, the optional list and the ledger
Registered(p, h) ==
  [arguments |-> p.arguments, specs |-> Configuration(h),
   positional_args |-> p.positional_args, pos_args_size |-> p.pos_args_size,
   optional_args |-> p.optional_args, req_opt_args |-> p.req_opt_args,
   req_opt_args_size |-> p.req_opt_args_size]

\* C32: a parse call changes only bound values and diagnostics: every step
\* of argparser_parse_args, from its entry to its return, leaves the
\* registered keys, the positional list and its count, the required ledger
\* and every configuration field of every argument record as they were.
C32_ParseKeepsTheRegistry ==
  [][pc' # "register"
       => Registered(parser', heap') = Registered(parser, heap)]_vars

\* a parse that has returned with a value bound, a ledger entry present and
\* diagnostics printed
C32_Witness ==
  /\ pc = "done"
  /\ \E m \in 1 .. Len(heap) : heap[m].value # NULLPTR
  /\ parser.req_opt_args # NULLSTR
  /\ output # << >>

(***************************************************************************)
(* The count of the hash table, checked under SpecHT.                      *)
(***************************************************************************)
\* C33: after every sequence of insert / insert_and_replace / delete,
\* hash_table_get_size equals the number of occupied slots, also when an
\* insert has placed its key into a slot that a delete left as a tombstone.
C33_SizeCountsOccupiedSlots ==
  hash_table_get_size(ht) = Cardinality(OccupiedSlots(ht))

(***************************************************************************)
(* The end of every probe, checked under SpecFill.                         *)
(***************************************************************************)
\* the slots that were never used: no key and no tombstone mark
EmptySlots(t) ==
  {j \in DOMAIN t.entries :
     t.entries[j].key = NULLSTR /\ t.entries[j].value = NULLPTR}

\* C34: in every state reachable by insert / insert_and_replace / delete
\* the allocated slots hold at least one that was never used, so the probe
\* of search, insert and delete ends for every key: every call returns.
C34_ProbeEndsAtEmptySlot ==
  /\ htReturns
  /\ DOMAIN ht.entries # {} => EmptySlots(ht) # {}

(***************************************************************************)
(* The capacity of the array, checked under SpecShrink.                    *)
(***************************************************************************)
\* C35: in every state reachable by add / add_many / remove / shrink_to_fit
\* the size is at most the capacity, and every add and add_many returns
\* with the new items stored inside the allocated capacity, also when it
\* follows a shrink_to_fit of an empty array.
C35_ItemsFitTheCapacity ==
  /\ array.size <= array.capacity
  /\ daLast.op \in {"add", "add_many"}
       => /\ DaReturned
          /\ ~daLast.oob
          /\ array.size * array.data_size <= Len(array.items)

(***************************************************************************)
(* The values left by a parse, checked under SpecStore.                    *)
(***************************************************************************)
\* C36: after a parse every argument record's value is absent or the result
\* of a successful conversion; an occurrence of a Store argument whose
\* conversion fails never leaves the record pointing to the value bound
\* before, which has been released.
C36_NoReleasedValueIsKept ==
  pc = "done" =>
    \A m \in 1 .. Len(heap) :
      \/ heap[m].value = NULLPTR
      \/ heap[m].value.tag \in {"long", "string"}

(***************************************************************************)
(* The required line, checked under SpecParse.                             *)
(***************************************************************************)
\* some entry of the ledger names an argument that has no bound value
LedgerEntryMissing ==
  /\ parser.req_opt_args # NULLSTR
  /\ MissingRequiredText(parser, heap,
       SplitAll(string_slice_trim(Built(parser.req_opt_args)), " ")) # << >>

\* C37: the line "the following argument(s) are required" is printed only
\* when an argument of the ledger has no bound value or a registered
\* positional was not filled; a parse in which every ledger entry has a
\* bound value and every positional is filled prints no such line.
C37_RequiredLineOnlyWhenMissing ==
  pc = "done" =>
    ((\E k \in 1 .. Len(output) : output[k].line = REQUIRED_PREFIX)
       => \/ LedgerEntryMissing
          \/ current_pos_count < Len(PositionalRecords(heap, 1)))

(***************************************************************************)
(* The cursor of the scan, checked under SpecLong.                         *)
(***************************************************************************)
\* C38: the cursor i strictly increases from one iteration of the for loop
\* to the next, and no call that consumes a value returns a position
\* smaller than the one it was given, also when args_str is longer than
\* 65535 characters: a step that ends an iteration of the for loop leaves
\* i greater than it was, a step into or inside the flag loop leaves it no
\* smaller.
C38_CursorAdvances ==
  [][/\ (pc = "for" /\ pc' = "for") => i' > i
     /\ (pc = "while" /\ pc' = "for") => i' > i
     /\ (pc \in {"for", "while"} /\ pc' = "while") => i' >= i]_vars

====
